---- MODULE Spec2Model ----
(***************************************************************************)
(* The tool registry and the RBAC-gated dispatcher of the CVE MCP server   *)
(* (src/mcp_server): ProductProfile.from_code, Tool, MCPToolRegistry, the  *)
(* six tools of cve_tools.py and the POST /tools/call handler call_tool;   *)
(* and the query agent (src/cve_agent_pkg/mcp): MCPAgent with its          *)
(* rule-based routing of a free-text query, and CVEMCPTools.execute_tool.  *)
(*                                                                         *)
(* Conventions.  A Python string that the code inspects character by       *)
(* character (the Product-Profile header, a query) is a sequence of        *)
(* one-character strings.  An Optional value is a set: {} is None, {x} is  *)
(* the value x.  A Python dict with string keys (kwargs, a tool result) is *)
(* a record.                                                               *)
(***************************************************************************)
EXTENDS Integers, Sequences, FiniteSets, TLC

VARIABLES tools, nregs, req, registered, info, reqs, agent, answer, decided,
          connection, client

\* The state of the server, of the query agent and of the server's client.
server_vars == <<tools, nregs, req, registered, info, reqs>>

agent_vars == <<agent, answer, decided, connection>>

client_vars == <<client>>

vars ==
    <<tools, nregs, req, registered, info, reqs, agent, answer, decided,
      connection, client>>

----------------------------------------------------------------------------
(* Bounds of the model. *)

\* Registrations made after load_tools (register_tool can be called any time).
MaxRegistrations == 2

\* Longest record list the query provider returns to a search tool.
MaxRecords == 1

\* Requests served at once, each by its own task.
MaxInFlight == 2

\* Requests one client sends.
MaxSent == 3

\* Queries one agent is asked (its conversation history grows with each).
MaxHistory == 1

\* Queries of one conversation.
MaxConversation == 3

----------------------------------------------------------------------------
(* Optional values. *)

None == {}

Some(x) == {x}

Get(opt) == CHOOSE x \in opt : TRUE

----------------------------------------------------------------------------
(* src/mcp_server/models/product_profile.py *)

\* The members of the enum, in definition order.
ProductProfile == <<"COMMON", "ADMIN", "PREMIUM", "BASIC">>

Profiles == {ProductProfile[i] : i \in DOMAIN ProductProfile}

\* ProductProfile.<member>.value, the canonical code.
value(p) ==
    CASE p = "COMMON"  -> <<"c", "o", "m", "m", "o", "n">>
      [] p = "ADMIN"   -> <<"a", "d", "m", "i", "n">>
      [] p = "PREMIUM" -> <<"p", "r", "e", "m", "i", "u", "m">>
      [] p = "BASIC"   -> <<"b", "a", "s", "i", "c">>

UpperLetters ==
    <<"A", "B", "C", "D", "E", "F", "G", "H", "I", "J", "K", "L", "M",
      "N", "O", "P", "Q", "R", "S", "T", "U", "V", "W", "X", "Y", "Z">>

LowerLetters ==
    <<"a", "b", "c", "d", "e", "f", "g", "h", "i", "j", "k", "l", "m",
      "n", "o", "p", "q", "r", "s", "t", "u", "v", "w", "x", "y", "z">>

\* str.lower() on one character.
LowerChar(c) ==
    IF \E i \in DOMAIN UpperLetters : UpperLetters[i] = c
    THEN LowerLetters[CHOOSE i \in DOMAIN UpperLetters : UpperLetters[i] = c]
    ELSE c

\* str.lower()
lower(s) == [i \in DOMAIN s |-> LowerChar(s[i])]

\* A plausible slip: the code is compared as given, without code.lower().
from_code_CaseSensitive(code) ==
    IF \E i \in DOMAIN ProductProfile : value(ProductProfile[i]) = code
    THEN ProductProfile[CHOOSE i \in DOMAIN ProductProfile :
                            /\ value(ProductProfile[i]) = code
                            /\ \A j \in 1..(i - 1) : value(ProductProfile[j]) # code]
    ELSE "COMMON"

\* A plausible slip: an unknown code falls back to the highest tier.
from_code_FallbackAdmin(code) ==
    LET c == lower(code) IN
    IF \E i \in DOMAIN ProductProfile : value(ProductProfile[i]) = c
    THEN ProductProfile[CHOOSE i \in DOMAIN ProductProfile :
                            /\ value(ProductProfile[i]) = c
                            /\ \A j \in 1..(i - 1) : value(ProductProfile[j]) # c]
    ELSE "ADMIN"

\* ProductProfile.from_code: the first member whose value is the lower-cased
\* code, COMMON when there is none.
from_code(code) ==
    LET c == lower(code) IN
    IF \E i \in DOMAIN ProductProfile : value(ProductProfile[i]) = c
    THEN ProductProfile[CHOOSE i \in DOMAIN ProductProfile :
                            /\ value(ProductProfile[i]) = c
                            /\ \A j \in 1..(i - 1) : value(ProductProfile[j]) # c]
    ELSE "COMMON"

----------------------------------------------------------------------------
(* src/mcp_server/tools/registry.py *)

\* The elements of a Python list.
Elems(list) == {list[i] : i \in DOMAIN list}

\* A plausible slip: the given list is stored as it is, with no default.
Tool_NoDefault(name, func, input_schema, product_profiles) ==
    [name |-> name,
     func |-> func,
     input_schema |-> input_schema,
     product_profiles |-> IF product_profiles = None THEN <<>>
                          ELSE Get(product_profiles)]

\* Tool.__init__: product_profiles is `product_profiles or [COMMON]`, so None
\* and the empty list both become [COMMON].  description and metadata are
\* stored as given, like input_schema, and are left out.
Tool(name, func, input_schema, product_profiles) ==
    [name |-> name,
     func |-> func,
     input_schema |-> input_schema,
     product_profiles |-> IF product_profiles = None \/ Get(product_profiles) = <<>>
                          THEN <<"COMMON">>
                          ELSE Get(product_profiles)]

\* self._tools is an insertion-ordered dict: the sequence of its values, one per
\* key, in insertion order.
HasKey(registry, name) == \E i \in DOMAIN registry : registry[i].name = name

\* A plausible slip: a registration is appended even when the name exists.
register_tool_Append(registry, name, func, input_schema, product_profiles) ==
    Append(registry, Tool(name, func, input_schema, product_profiles))

\* A plausible slip: a name that is present keeps its first registration.
register_tool_KeepFirst(registry, name, func, input_schema, product_profiles) ==
    IF HasKey(registry, name)
    THEN registry
    ELSE Append(registry, Tool(name, func, input_schema, product_profiles))

\* A plausible slip: a name that is registered again moves to the end.
register_tool_MoveToEnd(registry, name, func, input_schema, product_profiles) ==
    Append(SelectSeq(registry, LAMBDA t : t.name # name),
           Tool(name, func, input_schema, product_profiles))

\* A plausible slip: a registration starts the mapping afresh.
register_tool_Fresh(registry, name, func, input_schema, product_profiles) ==
    <<Tool(name, func, input_schema, product_profiles)>>

\* MCPToolRegistry.register_tool: self._tools[name] = Tool(...).  Assigning to
\* an existing key replaces the value and keeps the key's position.
register_tool(registry, name, func, input_schema, product_profiles) ==
    LET t == Tool(name, func, input_schema, product_profiles) IN
    IF HasKey(registry, name)
    THEN [i \in DOMAIN registry |->
            IF registry[i].name = name THEN t ELSE registry[i]]
    ELSE Append(registry, t)

\* MCPToolRegistry.get_tool: self._tools.get(name)
get_tool(registry, name) ==
    {registry[i] : i \in {j \in DOMAIN registry : registry[j].name = name}}

\* A plausible slip: the lookup takes the tool out, self._tools.pop(name).
after_get_tool_Pop(registry, name) ==
    SelectSeq(registry, LAMBDA t : t.name # name)

\* The mapping after get_tool: self._tools.get(name) only reads it.
after_get_tool(registry, name) == registry

\* The mapping after list_tools: list(self._tools.values()) is a new list and
\* the loop over self._tools.values() appends to another.
after_list_tools(registry, product_profile) == registry

\* A plausible slip: ADMIN is filtered like every other profile.
list_tools_NoAdminBypass(registry, product_profile) ==
    IF product_profile = None
    THEN registry
    ELSE SelectSeq(registry,
                   LAMBDA t : Get(product_profile) \in Elems(t.product_profiles))

\* MCPToolRegistry.list_tools
list_tools(registry, product_profile) ==
    IF product_profile = None \/ product_profile = Some("ADMIN")
    THEN registry
    ELSE SelectSeq(registry,
                   LAMBDA t : Get(product_profile) \in Elems(t.product_profiles))

\* A parameter of a signature: its name and its default, if it declares one.
Parameter(name, default) == [name |-> name, default |-> default]

\* inspect.signature(func).parameters: those of the tool functions of
\* cve_tools.py, and those of the callables registered after start-up.
Signature(func) ==
    LET limit == Parameter("limit", Some(10))
        output_format == Parameter("output_format", Some("list"))
    IN  CASE func = "get_cve_details" ->
                <<Parameter("cve_id", None),
                  Parameter("output_format", Some("detailed"))>>
          [] func = "search_cves_by_severity" ->
                <<Parameter("severity", None), limit, output_format>>
          [] func = "search_cves_by_exploit_maturity" ->
                <<Parameter("maturity", None), limit, output_format>>
          [] func = "search_cves_by_keyword" ->
                <<Parameter("keyword", None), limit, output_format>>
          [] func = "list_recent_cves" -> <<limit, output_format>>
          [] func = "search_cves_by_cvss_score" ->
                <<Parameter("min_score", None), Parameter("max_score", None),
                  limit, output_format>>
          [] func = "custom_async" ->
                <<Parameter("x", None), Parameter("y", Some(0))>>
          [] OTHER -> <<>>

\* The names of the parameters of func.
Params(func) == {param.name : param \in Elems(Signature(func))}

\* A plausible slip: every parameter is required.
Required_All(func) == {param.name : param \in Elems(Signature(func))}

\* The parameters of func with param.default == inspect.Parameter.empty.
Required(func) ==
    {param.name : param \in {q \in Elems(Signature(func)) : q.default = None}}

\* An input schema: the names under "properties" and the "required" list.
Schema(properties, required) ==
    [properties |-> properties, required |-> required]

\* The schema the decorator registers: built from the signature of func,
\* one property per parameter and the parameters without default required,
\* if input_schema is None; input_schema otherwise.
tool_input_schema(func, input_schema) ==
    IF input_schema = None
    THEN Schema(Params(func), Required(func))
    ELSE Get(input_schema)

\* MCPToolRegistry.tool, the decorator: tool_name = func.__name__, the schema
\* is the one given or else built from the signature of func, then
\* register_tool.  A function is named by its __name__; Params and Required
\* are its signature.  Every decorator of cve_tools.py gives a schema.
tool(registry, func, input_schema, product_profiles) ==
    register_tool(registry, func, func, tool_input_schema(func, input_schema),
                  product_profiles)

----------------------------------------------------------------------------
(* src/mcp_server/tools/cve_tools.py: the registrations *)

AllProfiles == Some(<<"COMMON", "PREMIUM", "ADMIN">>)

\* The input_schema literal of each decorator; that of list_recent_cves has
\* no "required" entry.
decorator_input_schema(func) ==
    CASE func = "get_cve_details" ->
            Schema({"cve_id", "output_format"}, {"cve_id"})
      [] func = "search_cves_by_severity" ->
            Schema({"severity", "limit", "output_format"}, {"severity"})
      [] func = "search_cves_by_exploit_maturity" ->
            Schema({"maturity", "limit", "output_format"}, {"maturity"})
      [] func = "search_cves_by_keyword" ->
            Schema({"keyword", "limit", "output_format"}, {"keyword"})
      [] func = "list_recent_cves" ->
            Schema({"limit", "output_format"}, {})
      [] func = "search_cves_by_cvss_score" ->
            Schema({"min_score", "max_score", "limit", "output_format"},
                   {"min_score", "max_score"})

\* The product_profiles of each decorator.
decorator_product_profiles(func) ==
    IF func = "search_cves_by_cvss_score"
    THEN Some(<<"PREMIUM", "ADMIN">>)
    ELSE AllProfiles

\* The decorated functions, in file order.
cve_tools == <<"get_cve_details", "search_cves_by_severity",
               "search_cves_by_exploit_maturity", "search_cves_by_keyword",
               "list_recent_cves", "search_cves_by_cvss_score">>

\* load_tools imports cve_tools, whose six decorators run in file order.
load_tools(registry) ==
    LET decorate(r, func) ==
            tool(r, func, Some(decorator_input_schema(func)),
                 decorator_product_profiles(func))
        r1 == decorate(registry, cve_tools[1])
        r2 == decorate(r1, cve_tools[2])
        r3 == decorate(r2, cve_tools[3])
        r4 == decorate(r3, cve_tools[4])
        r5 == decorate(r4, cve_tools[5])
    IN  decorate(r5, cve_tools[6])

----------------------------------------------------------------------------
(* The outcome of calling or awaiting a callable. *)

Return(v) == [kind |-> "return", value |-> v]

Raise(e) == [kind |-> "raise", exc |-> e]

\* The callable returned an object with __await__; its outcome is known when
\* it is awaited.
Awaitable == [kind |-> "awaitable"]

\* Exception classes a callable can raise.  SystemExit is a BaseException that
\* is not an Exception; HTTPException (fastapi) is an Exception.
IsException(e) == e.cls \in {"TypeError", "ValueError", "HTTPException"}

\* str(e)
str(e) == e.msg

\* What Python raises when **kwargs does not fit the signature.
BindError ==
    Raise([cls |-> "TypeError", msg |-> "missing or unexpected keyword argument"])

----------------------------------------------------------------------------
(* src/mcp_server/tools/cve_tools.py: the tool functions.  The query       *)
(* provider (repo_manager.cve_details_repo) and the renderer are external: *)
(* the provider's answer is an input, a rendered text is named by its      *)
(* template and the data it was rendered from.                             *)

SearchTools ==
    {"search_cves_by_severity", "search_cves_by_exploit_maturity",
     "search_cves_by_keyword", "list_recent_cves", "search_cves_by_cvss_score"}

CveTools == {"get_cve_details"} \cup SearchTools

\* Python binds **kwargs to the signature before the body runs.
Binds(func, kwargs) ==
    /\ Required(func) \subseteq DOMAIN kwargs
    /\ DOMAIN kwargs \subseteq Params(func)

\* CVETemplateRenderer, by the template each method loads.
render_cve_json(cve_data) == [json |-> cve_data]

render_cve_markdown(cve_data) == [template |-> "cve_markdown.jinja", cve |-> cve_data]

render_cve_summary(cve_data) == [template |-> "cve_summary.jinja", cve |-> cve_data]

render_cve_detailed(cve_data) == [template |-> "cve_detailed.jinja", cve |-> cve_data]

render_cve_list(cves) == [template |-> "cve_list.jinja", cves |-> cves]

\* A plausible slip: a missing record is reported as an empty success.
get_cve_details_EmptySuccess(kwargs, cve_data) ==
    LET output_format == IF "output_format" \in DOMAIN kwargs
                         THEN kwargs.output_format ELSE "detailed"
    IN  IF cve_data # None
        THEN [status |-> "success", data |-> Get(cve_data),
              rendered |-> Some(render_cve_detailed(Get(cve_data))),
              format |-> output_format]
        ELSE [status |-> "success", count |-> 0, data |-> <<>>,
              rendered |-> None, format |-> output_format]

\* get_cve_details(cve_id, output_format="detailed"); cve_data is what
\* find_by_cve_number returned (None or a record).
get_cve_details(kwargs, cve_data) ==
    LET output_format == IF "output_format" \in DOMAIN kwargs
                         THEN kwargs.output_format ELSE "detailed"
    IN  IF cve_data # None
        THEN LET d == Get(cve_data)
                 rendered ==
                    CASE output_format = "json" -> render_cve_json(d)
                      [] output_format = "markdown" -> render_cve_markdown(d)
                      [] output_format = "summary" -> render_cve_summary(d)
                      [] OTHER -> render_cve_detailed(d)
             IN  [status |-> "success", data |-> d,
                  rendered |-> Some(rendered), format |-> output_format]
        ELSE [status |-> "error",
              message |-> <<"CVE ", kwargs.cve_id, " not found">>]

\* The body shared, word for word, by search_cves_by_severity,
\* search_cves_by_exploit_maturity, search_cves_by_keyword, list_recent_cves
\* and search_cves_by_cvss_score; cves is the list the provider returned.
search_cves(kwargs, cves) ==
    LET output_format == IF "output_format" \in DOMAIN kwargs
                         THEN kwargs.output_format ELSE "list"
    IN  [status |-> "success", count |-> Len(cves), data |-> cves,
         rendered |-> IF output_format = "list" /\ cves # <<>>
                      THEN Some(render_cve_list(cves)) ELSE None,
         format |-> output_format]

----------------------------------------------------------------------------
(* Inputs of the model. *)

\* Values of the Product-Profile header that requests carry; None is a request
\* without the header.
HeaderValues ==
    {<<"c", "o", "m", "m", "o", "n">>,
     <<"A", "d", "m", "i", "n">>,
     <<"P", "R", "E", "M", "I", "U", "M">>,
     <<"b", "a", "s", "i", "c">>,
     <<"r", "o", "o", "t">>,
     <<>>}

Headers == {None} \cup {Some(h) : h \in HeaderValues}

\* Names and callables of the registrations made after load_tools: a new name
\* and the name of a loaded tool.
RegNames == {"custom_tool", "search_cves_by_cvss_score"}

CustomFuncs == {"custom_sync", "custom_async"}

\* The input_schema argument of those registrations: each callable comes
\* with the schema written for it.
InputSchemaFor(func) ==
    IF func = "custom_sync" THEN Schema({}, {}) ELSE Schema({"x"}, {"x"})

\* The product_profiles argument of those registrations.
ProfileArgs ==
    {None, Some(<<>>), Some(<<"PREMIUM">>), Some(<<"BASIC", "COMMON">>)}

\* Tool names that requests ask for.
ToolNames == CveTools \cup {"custom_tool", "does_not_exist"}

\* A dict without keys.
EmptyDict == [k \in {} |-> ""]

\* The arguments mapping of a request for a tool name.
ArgsFor(tool_name) ==
    {EmptyDict} \cup
    CASE tool_name = "get_cve_details" ->
            {[cve_id |-> "CVE-2021-44228"],
             [cve_id |-> "CVE-2021-44228", output_format |-> "json"]}
      [] tool_name = "search_cves_by_severity" ->
            {[severity |-> "HIGH"], [severity |-> "HIGH", output_format |-> "json"]}
      [] tool_name = "search_cves_by_exploit_maturity" ->
            {[maturity |-> "Functional"],
             [maturity |-> "Functional", output_format |-> "json"]}
      [] tool_name = "search_cves_by_keyword" ->
            {[keyword |-> "log4j"], [keyword |-> "log4j", output_format |-> "json"]}
      [] tool_name = "list_recent_cves" ->
            {[output_format |-> "json"], [cve_id |-> "CVE-2021-44228"]}
      [] tool_name = "search_cves_by_cvss_score" ->
            {[min_score |-> 7, max_score |-> 9],
             [min_score |-> 7, max_score |-> 9, output_format |-> "json"]}
      [] OTHER -> {[x |-> "1"]}

\* Records of the CVE collection and the lists the provider returns.
Records == {[cve_number |-> "CVE-2021-44228"]}

RecordLists == UNION {[1..n -> Records] : n \in 0..MaxRecords}

\* What a callable that is not one of the six tools returns.
Values ==
    {[answer |-> "42"],
     [status |-> "error", message |-> <<"nothing to report">>]}

\* What such a callable does when called (or awaited): it returns a value or
\* raises.
CustomOutcomes ==
    {Return(v) : v \in Values}
    \cup {Raise([cls |-> "ValueError", msg |-> m]) : m \in {"", "boom"}}
    \cup {Raise([cls |-> "HTTPException", msg |-> "teapot", status_code |-> 418]),
          Raise([cls |-> "SystemExit", msg |-> ""])}

\* The part of the world one call of func reads: the provider's answer for a
\* tool of cve_tools, the callable's own behaviour otherwise.
Worlds(func) ==
    CASE func = "get_cve_details" ->
            {[cve_data |-> d] : d \in {None} \cup {Some(r) : r \in Records}}
      [] func \in SearchTools -> {[cves |-> l] : l \in RecordLists}
      [] func = "custom_sync" -> {[outcome |-> o] : o \in CustomOutcomes}
      [] OTHER -> {[outcome |-> Awaitable]}

\* self.func(**kwargs)
Call(func, kwargs, world) ==
    CASE func = "get_cve_details" ->
            IF Binds(func, kwargs)
            THEN Return(get_cve_details(kwargs, world.cve_data))
            ELSE BindError
      [] func \in SearchTools ->
            IF Binds(func, kwargs)
            THEN Return(search_cves(kwargs, world.cves))
            ELSE BindError
      [] OTHER -> world.outcome

----------------------------------------------------------------------------
(* src/mcp_server/main.py: POST /tools/call *)

\* ToolCallResponse(status=..., result=..., error=...); result and error
\* default to None.
ToolCallResponse(status, result, error) ==
    [kind |-> "envelope", status |-> status, result |-> result, error |-> error]

\* An HTTPException leaving the handler: FastAPI answers with its status code
\* and {"detail": detail}.
HTTPException(status_code, detail) ==
    [kind |-> "HTTPException", status_code |-> status_code, detail |-> detail]

\* An exception no clause of the handler catches.
Propagated(e) == [kind |-> "propagated", exc |-> e]

\* A plausible slip: the 404 does not say which tool was asked for.
NotFound_NoName(tool_name) ==
    HTTPException(404, [text |-> "Tool not found"])

\* HTTPException(status_code=404, detail=f"Tool '{tool_name}' not found")
NotFound(tool_name) ==
    HTTPException(404, [text |-> "Tool not found", tool_name |-> tool_name])

\* HTTPException(status_code=403, detail=f"Access denied. Tool requires one
\* of: {[p.value for p in tool.product_profiles]}")
Forbidden(t) ==
    HTTPException(403,
        [text |-> "Access denied. Tool requires one of",
         profiles |-> [i \in DOMAIN t.product_profiles |->
                          value(t.product_profiles[i])]])

\* A plausible slip: the ADMIN bypass is left out of the check.
AccessDenied_NoAdminBypass(profile_enum, t) ==
    profile_enum \notin Elems(t.product_profiles)

\* A plausible slip: PREMIUM is let through like ADMIN.
AccessDenied_PremiumBypass(profile_enum, t) ==
    /\ profile_enum \notin Elems(t.product_profiles)
    /\ profile_enum \notin {"ADMIN", "PREMIUM"}

\* profile_enum not in tool.product_profiles and profile_enum != ADMIN
AccessDenied(profile_enum, t) ==
    /\ profile_enum \notin Elems(t.product_profiles)
    /\ profile_enum # "ADMIN"

\* A plausible slip: the value is wrapped as a tool-level success mapping.
Complete_Rewrap(outcome) ==
    IF outcome.kind = "return"
    THEN ToolCallResponse("success",
                          Some([status |-> "success", data |-> outcome.value]),
                          None)
    ELSE IF outcome.exc.cls = "HTTPException"
    THEN HTTPException(outcome.exc.status_code, [text |-> outcome.exc.msg])
    ELSE IF IsException(outcome.exc)
    THEN ToolCallResponse("error", None, Some(str(outcome.exc)))
    ELSE Propagated(outcome.exc)

\* A plausible slip: the error message is returned in the result field.
Complete_ErrorAsResult(outcome) ==
    IF outcome.kind = "return"
    THEN ToolCallResponse("success", Some(outcome.value), None)
    ELSE IF outcome.exc.cls = "HTTPException"
    THEN HTTPException(outcome.exc.status_code, [text |-> outcome.exc.msg])
    ELSE IF IsException(outcome.exc)
    THEN ToolCallResponse("error", Some([answer |-> str(outcome.exc)]), None)
    ELSE Propagated(outcome.exc)

\* How `result = await tool.execute(**arguments)` ends inside the handler's
\* try: the value is returned as ToolCallResponse(status="success", result=..);
\* `except HTTPException: raise` re-raises; `except Exception as e` returns
\* ToolCallResponse(status="error", error=str(e)); anything else propagates.
\* Tool.execute itself logs an Exception and re-raises it unchanged.
Complete(outcome) ==
    IF outcome.kind = "return"
    THEN ToolCallResponse("success", Some(outcome.value), None)
    ELSE IF outcome.exc.cls = "HTTPException"
    THEN HTTPException(outcome.exc.status_code, [text |-> outcome.exc.msg])
    ELSE IF IsException(outcome.exc)
    THEN ToolCallResponse("error", None, Some(str(outcome.exc)))
    ELSE Propagated(outcome.exc)

\* The request between two operations of the server.
IdleReq == [pc |-> "idle"]

NoResponse == [kind |-> "none"]

\* RoleAuthorizationMiddleware.dispatch: request.state.product_profile =
\* from_code(request.headers.get("Product-Profile", "common")).
state_product_profile(header) ==
    from_code(IF header = None THEN value("COMMON") ELSE Get(header))

\* A request as the handler finds it: what it carried and what the middleware
\* stored.  The other fields record what the handler did: the tool it
\* resolved, its steps in program order, what the callable read and returned,
\* the path taken and the response.
Received(tool_name, arguments, header) ==
    [pc |-> "done",
     tool_name |-> tool_name,
     arguments |-> arguments,
     header |-> header,
     state_product_profile |-> state_product_profile(header),
     profile_enum |-> "COMMON",
     tool |-> None,
     events |-> <<>>,
     world |-> None,
     returned |-> None,
     outcome |-> "pending",
     response |-> NoResponse]

\* The handler from the point where the callable has been called, or its
\* awaitable awaited, with the given outcome: it suspends on an awaitable and
\* returns otherwise.
Finish(r, outcome) ==
    IF outcome.kind = "awaitable"
    THEN [r EXCEPT !.pc = "awaiting"]
    ELSE [r EXCEPT !.pc = "done",
                   !.returned = IF outcome.kind = "return"
                                THEN Some(outcome.value) ELSE None,
                   !.outcome = IF outcome.kind = "return"
                               THEN "returned" ELSE "raised",
                   !.response = Complete(outcome)]

\* A plausible slip: the callable runs before the access check.
call_tool_ExecuteFirst(registry, tool_name, arguments, header, world) ==
    LET product_profile == IF header = None THEN value("COMMON") ELSE Get(header)
        profile_enum == from_code(product_profile)
        found == get_tool(registry, tool_name)
        r0 == [Received(tool_name, arguments, header) EXCEPT
                  !.profile_enum = profile_enum,
                  !.tool = found,
                  !.events = <<"from_code", "get_tool">>]
    IN  IF found = None
        THEN [r0 EXCEPT !.outcome = "not_found", !.response = NotFound(tool_name)]
        ELSE
        LET r1 == [r0 EXCEPT !.events = @ \o <<"execute", "check_access">>,
                             !.world = Some(world)]
        IN  IF AccessDenied(profile_enum, Get(found))
            THEN [r1 EXCEPT !.outcome = "access_denied",
                            !.response = Forbidden(Get(found))]
            ELSE Finish(r1, Call(Get(found).func, arguments, world))

\* call_tool up to its return or to the point where Tool.execute awaits the
\* callable's awaitable.  product_profile is the Header parameter, "common"
\* by default.
call_tool(registry, tool_name, arguments, header, world) ==
    LET product_profile == IF header = None THEN value("COMMON") ELSE Get(header)
        profile_enum == from_code(product_profile)
        found == get_tool(registry, tool_name)
        r0 == [Received(tool_name, arguments, header) EXCEPT
                  !.profile_enum = profile_enum,
                  !.tool = found,
                  !.events = <<"from_code", "get_tool">>]
    IN  IF found = None
        THEN [r0 EXCEPT !.outcome = "not_found", !.response = NotFound(tool_name)]
        ELSE
        LET r1 == [r0 EXCEPT !.events = Append(@, "check_access")] IN
        IF AccessDenied(profile_enum, Get(found))
        THEN [r1 EXCEPT !.outcome = "access_denied",
                        !.response = Forbidden(Get(found))]
        ELSE Finish([r1 EXCEPT !.events = Append(@, "execute"),
                               !.world = Some(world)],
                    Call(Get(found).func, arguments, world))

\* call_tool from `result = await result` in Tool.execute to its return.
resume(r, outcome) ==
    Finish([r EXCEPT !.events = Append(@, "await")], outcome)

\* Tool.to_dict: the fields of the descriptor the model keeps, the profiles
\* by their codes.
to_dict(t) ==
    [name |-> t.name,
     input_schema |-> t.input_schema,
     product_profiles |-> [i \in DOMAIN t.product_profiles |->
                              value(t.product_profiles[i])]]

\* A plausible slip: the listing endpoint lists for COMMON when the caller
\* is ADMIN.
http_list_tools_AdminAsCommon(registry, header) ==
    LET product_profile == state_product_profile(header)
        listed == list_tools(registry,
                             Some(IF product_profile = "ADMIN"
                                  THEN "COMMON" ELSE product_profile))
    IN  [kind |-> "listing",
         header |-> header,
         status |-> "success",
         product_profile |-> value(product_profile),
         count |-> Len(listed),
         tools |-> [i \in DOMAIN listed |-> to_dict(listed[i])]]

\* GET /tools: the listing for request.state.product_profile.  header is
\* kept with the response to tell whose listing it is.
http_list_tools(registry, header) ==
    LET product_profile == state_product_profile(header)
        listed == list_tools(registry, Some(product_profile))
    IN  [kind |-> "listing",
         header |-> header,
         status |-> "success",
         product_profile |-> value(product_profile),
         count |-> Len(listed),
         tools |-> [i \in DOMAIN listed |-> to_dict(listed[i])]]

\* A plausible slip: a tool the caller may not use is reported as missing.
get_tool_info_DeniedAsMissing(registry, tool_name, header) ==
    LET product_profile == state_product_profile(header)
        found == get_tool(registry, tool_name)
    IN  IF found = None \/ AccessDenied(product_profile, Get(found))
        THEN HTTPException(404, [text |-> "Tool not found",
                                 tool_name |-> tool_name])
        ELSE [kind |-> "tool_info", status |-> "success",
              tool |-> to_dict(Get(found))]

\* GET /tools/{tool_name}
get_tool_info(registry, tool_name, header) ==
    LET product_profile == state_product_profile(header)
        found == get_tool(registry, tool_name)
    IN  IF found = None
        THEN HTTPException(404, [text |-> "Tool not found",
                                 tool_name |-> tool_name])
        ELSE IF /\ product_profile \notin Elems(Get(found).product_profiles)
                /\ product_profile # "ADMIN"
        THEN HTTPException(403, [text |-> "Access denied"])
        ELSE [kind |-> "tool_info", status |-> "success",
              tool |-> to_dict(Get(found))]

----------------------------------------------------------------------------
(* Requests served at once: the middlewares around the handler. *)

Tasks == 1..MaxInFlight

\* The POST /tools/call requests that are served at once: a tool of every
\* profile list and a missing one, with and without the Product-Profile and
\* Correlation-ID headers.
ConcurrentRequests ==
    [tool_name : {"get_cve_details", "search_cves_by_cvss_score",
                  "does_not_exist"},
     header : {None, Some(<<"P", "R", "E", "M", "I", "U", "M">>)},
     correlation : {None, Some("c-1")}]

\* The requests dispatched while the catalogue is extended: those, less the
\* Correlation-ID header, and one for the tool registered after start-up.
CatalogRequests ==
    {request \in ConcurrentRequests : request.correlation = None}
    \cup [tool_name : {"custom_tool"}, header : {None}, correlation : {None}]

\* The tool names of those requests.
CatalogToolNames == {request.tool_name : request \in CatalogRequests}

\* The arguments such a request carries for its tool.
ArgsOf(tool_name) ==
    CASE tool_name = "get_cve_details" -> [cve_id |-> "CVE-2021-44228"]
      [] tool_name = "search_cves_by_cvss_score" ->
            [min_score |-> 7, max_score |-> 9]
      [] OTHER -> EmptyDict

\* ContextMiddleware.dispatch up to `await call_next(request)`, then
\* RoleAuthorizationMiddleware.dispatch up to its own: correlation_id_var is
\* set in the context of the task that serves the request, and
\* request.state.product_profile on the request.  request is what the client
\* sent, kept to tell what a response answers.
middleware(request) ==
    [pc |-> "received",
     request |-> request,
     tool_name |-> request.tool_name,
     arguments |-> ArgsOf(request.tool_name),
     header |-> request.header,
     correlation_id_var |-> IF request.correlation = None
                            THEN "default-correlation-id"
                            ELSE Get(request.correlation),
     state_product_profile |-> state_product_profile(request.header)]

\* A plausible slip: the handler takes the caller's profile from a variable
\* of the module that the latest request to arrive has set; here, the
\* request of the highest task that is being served.
handler_SharedProfile(rs, task, world) ==
    LET serving == {t \in DOMAIN rs : rs[t].pc # "idle"}
        latest == CHOOSE t \in serving : \A u \in serving : u <= t
    IN  [rs EXCEPT ![task] =
            [pc |-> "handled",
             request |-> rs[task].request,
             correlation_id_var |-> rs[task].correlation_id_var,
             call |-> call_tool(tools, rs[task].tool_name, rs[task].arguments,
                                rs[latest].header, world)]]

\* call_next reaches call_tool, which runs on its own parameters to its
\* return (the tools loaded at start-up are not asynchronous).
handler(rs, task, world) ==
    [rs EXCEPT ![task] =
        [pc |-> "handled",
         request |-> rs[task].request,
         correlation_id_var |-> rs[task].correlation_id_var,
         call |-> call_tool(tools, rs[task].tool_name, rs[task].arguments,
                            rs[task].header, world)]]

\* ContextMiddleware.dispatch after call_next:
\* response.headers["X-Correlation-ID"] = correlation_id_var.get()
respond(r) ==
    [pc |-> "sent",
     request |-> r.request,
     call |-> r.call,
     response |-> [body |-> r.call.response,
                   X_Correlation_ID |-> r.correlation_id_var]]

----------------------------------------------------------------------------
(* src/llm_agent_client/mcp_client.py: MCPClient *)

\* MCPClient.__init__: no tools cached, the profile "common".  sent are the
\* requests made, in order, each with its Product-Profile header; asked
\* records, for each, the product_profile argument and the command of the
\* command line behind it.
MCPClient ==
    [tools_cache |-> None, product_profile |-> "common",
     sent |-> <<>>, asked |-> <<>>]

\* `if x:` for an optional string or list: None and the empty one are false.
truthy(x, empty) == x # None /\ Get(x) # empty

\* MCPClient.call_mcp_tool: POST /tools/call with the stored profile.
call_mcp_tool(c, tool_name, arguments) ==
    [c EXCEPT !.sent = Append(@, [endpoint |-> "/tools/call",
                                  tool_name |-> tool_name,
                                  Product_Profile |-> c.product_profile])]

\* A plausible slip: the profile given is used for this request only.
MCPClient_call_tool_ThisCallOnly(c, tool_name, arguments, product_profile) ==
    IF truthy(product_profile, "")
    THEN [call_mcp_tool([c EXCEPT !.product_profile = Get(product_profile)],
                        tool_name, arguments)
            EXCEPT !.product_profile = c.product_profile]
    ELSE call_mcp_tool(c, tool_name, arguments)

\* MCPClient.call_tool
MCPClient_call_tool(c, tool_name, arguments, product_profile) ==
    IF truthy(product_profile, "")
    THEN call_mcp_tool([c EXCEPT !.product_profile = Get(product_profile)],
                       tool_name, arguments)
    ELSE call_mcp_tool(c, tool_name, arguments)

\* What GET /tools brings back: an error, or the tools of the answer.
ListResponses ==
    {[kind |-> "error"],
     [kind |-> "ok", tools |-> <<>>],
     [kind |-> "ok", tools |-> <<"get_cve_details">>]}

\* MCPClient.get_available_tools, and list_tools, its alias: the cached tools
\* if there are any; else GET /tools with the stored profile, whose tools are
\* cached unless the request fails.
get_available_tools(c, response) ==
    IF truthy(c.tools_cache, <<>>)
    THEN c
    ELSE LET requested ==
                 [c EXCEPT !.sent = Append(@, [endpoint |-> "/tools",
                                               tool_name |-> "",
                                               Product_Profile |-> c.product_profile])]
         IN  IF response.kind = "ok"
             THEN [requested EXCEPT !.tools_cache = Some(response.tools)]
             ELSE requested

\* agent_cli.main: the commands that reach the client, with the tool and the
\* product_profile argument of those that call a tool.
Commands ==
    {[command |-> "get", tool_name |-> "get_cve_details",
      product_profile |-> None],
     [command |-> "recent", tool_name |-> "list_recent_cves",
      product_profile |-> None],
     [command |-> "cvss", tool_name |-> "search_cves_by_cvss_score",
      product_profile |-> Some("premium")],
     [command |-> "tools", tool_name |-> "", product_profile |-> None]}

\* One command of the command line.
cli(c, cmd, response) ==
    IF cmd.command = "tools"
    THEN get_available_tools(c, response)
    ELSE MCPClient_call_tool(c, cmd.tool_name, EmptyDict, cmd.product_profile)

----------------------------------------------------------------------------
(* The state machine. *)

\* The arguments of a call of register_tool.
Registration(func, input_schema, product_profiles) ==
    [func |-> func, input_schema |-> input_schema,
     product_profiles |-> product_profiles]

\* The server module loads the tools before it serves.  registered records,
\* for each name, the arguments of the latest register_tool call for it.
\* info is the response to the latest GET /tools or GET /tools/{tool_name},
\* or the latest dispatch where the catalogue is concerned.
\* reqs are the requests of the tasks that serve POST /tools/call at once.
\* MCPAgent.__init__ and CVEMCPTools.__init__: not connected, no history;
\* client is the MCPClient of the command line after __init__.
\* connection tells how the latest connect or disconnect call ended;
\* answer is what process_query returned last; decided records, for each
\* message of the conversation history, the tool and arguments chosen for it.
Init ==
    /\ tools = load_tools(<<>>)
    /\ nregs = 0
    /\ req = IdleReq
    /\ registered = [name \in Elems(cve_tools) |->
                        Registration(name, decorator_input_schema(name),
                                     decorator_product_profiles(name))]
    /\ info = NoResponse
    /\ reqs = [task \in Tasks |-> IdleReq]
    /\ agent = [connected |-> FALSE, conversation_history |-> <<>>]
    /\ answer = None
    /\ decided = <<>>
    /\ connection = "never"
    /\ client = MCPClient

\* A registration after start-up: mcp.register_tool(name, func, ...).
RegisterTool ==
    /\ nregs < MaxRegistrations
    /\ \E name \in RegNames, func \in CustomFuncs, product_profiles \in ProfileArgs :
          LET input_schema == InputSchemaFor(func) IN
          /\ tools' = register_tool(tools, name, func, input_schema,
                                    product_profiles)
          /\ registered' =
                [n \in DOMAIN registered \cup {name} |->
                    IF n = name
                    THEN Registration(func, input_schema, product_profiles)
                    ELSE registered[n]]
    /\ nregs' = nregs + 1
    /\ UNCHANGED <<req, info, reqs, agent_vars, client_vars>>

\* The func of the tool a name resolves to, if it resolves and the caller may
\* use it; the callable is not called otherwise.
WorldsOf(registry, tool_name) ==
    IF get_tool(registry, tool_name) = None
    THEN {[outcome |-> Awaitable]}
    ELSE Worlds(Get(get_tool(registry, tool_name)).func)

\* POST /tools/call arrives and the handler runs.
CallTool ==
    /\ req.pc = "idle"
    /\ \E tool_name \in ToolNames, header \in Headers :
       \E arguments \in ArgsFor(tool_name), world \in WorldsOf(tools, tool_name) :
          /\ req' = call_tool(tools, tool_name, arguments, header, world)
          /\ tools' = after_get_tool(tools, tool_name)
    /\ UNCHANGED <<nregs, registered, info, reqs, agent_vars, client_vars>>

\* The awaitable of an asynchronous callable completes.
Resume ==
    /\ req.pc = "awaiting"
    /\ \E outcome \in CustomOutcomes : req' = resume(req, outcome)
    /\ UNCHANGED <<tools, nregs, registered, info, reqs, agent_vars, client_vars>>

\* The response has been sent; the next request can be taken.
SendResponse ==
    /\ req.pc = "done"
    /\ req' = IdleReq
    /\ UNCHANGED <<tools, nregs, registered, info, reqs, agent_vars, client_vars>>

Next == RegisterTool \/ CallTool \/ Resume \/ SendResponse

Spec == Init /\ [][Next]_vars

\* The Product-Profile header of the GET requests: absent, a code of each
\* profile that is not the default, an unknown code.
CatalogHeaders ==
    {None,
     Some(<<"P", "R", "E", "M", "I", "U", "M">>),
     Some(<<"A", "d", "m", "i", "n">>),
     Some(<<"r", "o", "o", "t">>)}

\* GET /tools arrives and is answered.
ListTools ==
    /\ \E header \in CatalogHeaders :
          /\ info' = http_list_tools(tools, header)
          /\ tools' = after_list_tools(tools, Some(state_product_profile(header)))
    /\ UNCHANGED <<nregs, req, registered, reqs, agent_vars, client_vars>>

\* GET /tools/{tool_name} arrives and is answered.
GetToolInfo ==
    /\ \E tool_name \in CatalogToolNames, header \in CatalogHeaders :
          /\ info' = get_tool_info(tools, tool_name, header)
          /\ tools' = after_get_tool(tools, tool_name)
    /\ UNCHANGED <<nregs, req, registered, reqs, agent_vars, client_vars>>

\* A POST /tools/call arrives at a free task and passes the middlewares.
Arrive(task) ==
    /\ reqs[task].pc = "idle"
    /\ \E request \in ConcurrentRequests :
          reqs' = [reqs EXCEPT ![task] = middleware(request)]
    /\ UNCHANGED <<tools, nregs, req, registered, info, agent_vars, client_vars>>

\* The handler of a task runs.
Handle(task) ==
    /\ reqs[task].pc = "received"
    /\ \E world \in WorldsOf(tools, reqs[task].tool_name) :
          reqs' = handler(reqs, task, world)
    /\ tools' = after_get_tool(tools, reqs[task].tool_name)
    /\ UNCHANGED <<nregs, req, registered, info, agent_vars, client_vars>>

\* The response of a task passes the middlewares on its way out.
Respond(task) ==
    /\ reqs[task].pc = "handled"
    /\ reqs' = [reqs EXCEPT ![task] = respond(reqs[task])]
    /\ UNCHANGED <<tools, nregs, req, registered, info, agent_vars, client_vars>>

\* The task ends.
Close(task) ==
    /\ reqs[task].pc = "sent"
    /\ reqs' = [reqs EXCEPT ![task] = IdleReq]
    /\ UNCHANGED <<tools, nregs, req, registered, info, agent_vars, client_vars>>

\* The server after start-up, serving dispatches at once, nothing registered.
NextConcurrent ==
    \E task \in Tasks :
        Arrive(task) \/ Handle(task) \/ Respond(task) \/ Close(task)

SpecConcurrent == Init /\ [][NextConcurrent]_vars

\* POST /tools/call arrives and is answered, the callable's awaitable, if
\* it returned one, completing with some outcome.
Dispatch ==
    /\ \E request \in CatalogRequests :
       \E world \in WorldsOf(tools, request.tool_name) :
          LET r == call_tool(tools, request.tool_name,
                             ArgsOf(request.tool_name), request.header, world)
          IN  /\ IF r.pc = "awaiting"
                 THEN \E outcome \in CustomOutcomes :
                         info' = [kind |-> "dispatch",
                                  call |-> resume(r, outcome)]
                 ELSE info' = [kind |-> "dispatch", call |-> r]
              /\ tools' = after_get_tool(tools, request.tool_name)
    /\ UNCHANGED <<nregs, req, registered, reqs, agent_vars, client_vars>>

\* The functions decorated after start-up: with and without parameters,
\* with and without defaults.
DecoratedFuncs ==
    {"get_cve_details", "list_recent_cves", "custom_sync", "custom_async"}

\* The input_schema argument of their decorators: none, an empty schema, a
\* schema that names other parameters than the function's.
DecoratorSchemas == {None, Some(Schema({}, {})), Some(Schema({"x"}, {"x"}))}

\* A function is decorated after start-up: @mcp.tool(input_schema=...,
\* product_profiles=...).  registered records the arguments of the
\* register_tool call and the input_schema argument of the decorator.
Decorate ==
    /\ nregs < MaxRegistrations
    /\ \E func \in DecoratedFuncs, input_schema \in DecoratorSchemas,
          product_profiles \in {None, Some(<<"PREMIUM">>)} :
          /\ tools' = tool(tools, func, input_schema, product_profiles)
          /\ registered' =
                [n \in DOMAIN registered \cup {func} |->
                    IF n = func
                    THEN [func |-> func,
                          input_schema |-> tool_input_schema(func, input_schema),
                          product_profiles |-> product_profiles,
                          decorator_input_schema |-> input_schema]
                    ELSE registered[n]]
    /\ nregs' = nregs + 1
    /\ UNCHANGED <<req, info, reqs, agent_vars, client_vars>>

\* GET /tools/{tool_name} for a decorated function.
GetDecorated ==
    /\ \E tool_name \in DecoratedFuncs :
          /\ info' = get_tool_info(tools, tool_name, Some(<<"A", "d", "m", "i", "n">>))
          /\ tools' = after_get_tool(tools, tool_name)
    /\ UNCHANGED <<nregs, req, registered, reqs, agent_vars, client_vars>>

\* The server with functions decorated after start-up.
NextDecorator == Decorate \/ GetDecorated

SpecDecorator == Init /\ [][NextDecorator]_vars

\* The client after an operation, with asked brought up to sent.
Logged(c, product_profile, command) ==
    IF Len(c.sent) > Len(c.asked)
    THEN [c EXCEPT !.asked = Append(@, [product_profile |-> product_profile,
                                        command |-> command])]
    ELSE c

\* The product_profile arguments of direct calls: none, profiles, the empty
\* string.
ProfileArguments == {None, Some("premium"), Some("admin"), Some("")}

\* client.call_tool(tool_name, arguments, product_profile) is called.
ClientCallTool ==
    /\ Len(client.sent) < MaxSent
    /\ \E product_profile \in ProfileArguments :
          client' = Logged(MCPClient_call_tool(client, "get_cve_details",
                                              EmptyDict, product_profile),
                          product_profile, None)
    /\ UNCHANGED <<server_vars, agent_vars>>

\* client.list_tools() is called.
ClientListTools ==
    /\ Len(client.sent) < MaxSent
    /\ \E response \in ListResponses :
          client' = Logged(get_available_tools(client, response), None, None)
    /\ UNCHANGED <<server_vars, agent_vars>>

\* A command is typed at the command line.
Command ==
    /\ Len(client.sent) < MaxSent
    /\ \E cmd \in Commands, response \in ListResponses :
          client' = Logged(cli(client, cmd, response), cmd.product_profile,
                          Some(cmd.command))
    /\ UNCHANGED <<server_vars, agent_vars>>

\* The client used directly and through the command line.
NextClient == ClientCallTool \/ ClientListTools \/ Command

SpecClient == Init /\ [][NextClient]_vars

\* The server with its tool catalogue extended, read and dispatched from.
NextCatalog == RegisterTool \/ ListTools \/ GetToolInfo \/ Dispatch

SpecCatalog == Init /\ [][NextCatalog]_vars

----------------------------------------------------------------------------
(* Properties of the dispatcher and the registry. *)

Done == req.pc = "done"

\* The codes of a profile list, as the 403 detail prints them.
CodesOf(product_profiles) ==
    [i \in DOMAIN product_profiles |-> value(product_profiles[i])]

\* The header is absent or is the code of no profile, in any case.
Unrecognized(header) ==
    \/ header = None
    \/ \A p \in Profiles : lower(Get(header)) # value(p)

\* C1: a dispatch to a registered tool by a caller profile other than ADMIN
\* that is not in the tool's product_profiles ends, without calling the
\* callable, as a 403 access-denied error whose detail lists the codes of the
\* tool's product_profiles; it is no success envelope.
C1_DeniedNamesProfiles ==
    (/\ req.pc # "idle"
     /\ req.tool # None
     /\ req.profile_enum # "ADMIN"
     /\ req.profile_enum \notin Elems(Get(req.tool).product_profiles))
    => /\ Done
       /\ req.outcome = "access_denied"
       /\ req.response.kind = "HTTPException"
       /\ req.response.status_code = 403
       /\ req.response.detail.profiles = CodesOf(Get(req.tool).product_profiles)
       /\ req.returned = None

\* C1 witness: a BASIC caller is denied a tool registered for PREMIUM only.
C1_Witness ==
    /\ Done
    /\ req.outcome = "access_denied"
    /\ req.profile_enum = "BASIC"
    /\ Get(req.tool).product_profiles = <<"PREMIUM">>
    /\ req.response.detail.profiles = <<value("PREMIUM")>>

\* C2: a dispatch by ADMIN to a registered tool is never access-denied,
\* whatever the tool's product_profiles: the check passes and the callable
\* is called.
C2_AdminNeverDenied ==
    (/\ req.pc # "idle"
     /\ req.tool # None
     /\ req.profile_enum = "ADMIN")
    => /\ req.outcome # "access_denied"
       /\ req.events = <<"from_code", "get_tool", "check_access", "execute">>
             \/ req.events =
                   <<"from_code", "get_tool", "check_access", "execute", "await">>
       /\ req.world # None

\* C2 witness: ADMIN calls a tool whose product_profiles does not hold ADMIN.
C2_Witness ==
    /\ Done
    /\ req.profile_enum = "ADMIN"
    /\ req.tool # None
    /\ "ADMIN" \notin Elems(Get(req.tool).product_profiles)
    /\ req.outcome = "returned"

\* C3: within one dispatch the callable is called only after the tool was
\* resolved and the access check passed; a dispatch that ends not-found or
\* access-denied never called it.
C3_CheckPrecedesInvocation ==
    req.pc # "idle" =>
       /\ \A i \in DOMAIN req.events :
             req.events[i] = "execute" =>
                /\ \E j \in 1..(i - 1) : req.events[j] = "get_tool"
                /\ \E j \in 1..(i - 1) : req.events[j] = "check_access"
                /\ req.tool # None
                /\ ~AccessDenied(req.profile_enum, Get(req.tool))
       /\ req.outcome \in {"not_found", "access_denied"} =>
             /\ \A i \in DOMAIN req.events : req.events[i] # "execute"
             /\ req.world = None
             /\ req.returned = None

\* C3 witness: a denied dispatch that stopped at the check.
C3_Witness ==
    /\ Done
    /\ req.outcome = "access_denied"
    /\ req.events = <<"from_code", "get_tool", "check_access">>

\* C4: for every profile P and every registered tool T, T is in
\* list_tools(P) exactly when P is in T.product_profiles or P is ADMIN.
C4_ListingMatchesProfiles ==
    \A p \in Profiles : \A i \in DOMAIN tools :
       (tools[i] \in Elems(list_tools(tools, Some(p))))
          <=> (p \in Elems(tools[i].product_profiles) \/ p = "ADMIN")

\* C4 witness: after a registration for PREMIUM only, the tool is listed for
\* ADMIN and PREMIUM and for neither COMMON nor BASIC.
C4_Witness ==
    \E i \in DOMAIN tools :
       /\ tools[i].product_profiles = <<"PREMIUM">>
       /\ tools[i] \in Elems(list_tools(tools, Some("ADMIN")))
       /\ tools[i] \in Elems(list_tools(tools, Some("PREMIUM")))
       /\ tools[i] \notin Elems(list_tools(tools, Some("COMMON")))
       /\ tools[i] \notin Elems(list_tools(tools, Some("BASIC")))

\* C5 as stated: a dispatch to a name that is not registered returns an error
\* envelope whose error message contains the name.
C5_NotFoundIsErrorEnvelope ==
    (Done /\ req.tool = None)
    => /\ req.response.kind = "envelope"
       /\ req.response.status = "error"
       /\ req.response.error = Some(req.tool_name)

\* C5, amended: a dispatch to a name that is not registered ends, for every
\* caller profile, as a 404 not-found error raised out of the handler, whose
\* detail names the requested tool; no envelope is returned and no callable
\* is called.
C5_NotFoundIs404 ==
    (req.pc # "idle" /\ req.tool = None)
    => /\ Done
       /\ req.outcome = "not_found"
       /\ req.response.kind = "HTTPException"
       /\ req.response.status_code = 404
       /\ "tool_name" \in DOMAIN req.response.detail
       /\ req.response.detail.tool_name = req.tool_name
       /\ req.world = None

\* C5 witness: ADMIN asks for a name that was never registered.
C5_Witness ==
    /\ Done
    /\ req.tool_name = "does_not_exist"
    /\ req.profile_enum = "ADMIN"
    /\ req.outcome = "not_found"
    /\ req.response.detail.tool_name = "does_not_exist"

\* C6 as stated: when the callable of an authorized dispatch raises, called or
\* awaited, the dispatch returns an error envelope with a non-empty error
\* string and nothing is raised out of the handler.
C6_RaisedIsErrorEnvelope ==
    (Done /\ req.outcome = "raised")
    => /\ req.response.kind = "envelope"
       /\ req.response.status = "error"
       /\ req.response.error # None
       /\ Get(req.response.error) # ""

\* An envelope as ToolCallResponse promises it: status success with a result
\* and no error, or status error with an error string and no result.
WellFormedEnvelope(resp) ==
    /\ resp.kind = "envelope"
    /\ resp.status \in {"success", "error"}
    /\ resp.status = "success" => resp.result # None /\ resp.error = None
    /\ resp.status = "error" => resp.result = None /\ resp.error # None

C8_ResultVerbatim ==
    (/\ Done
     /\ req.returned # None)
    => /\ req.outcome = "returned"
       /\ req.response = ToolCallResponse("success", req.returned, None)

\* C8 witness: an awaited callable returned a mapping with status "error" and
\* the envelope carries it under status success.
C8_Witness ==
    /\ Done
    /\ req.events = <<"from_code", "get_tool", "check_access", "execute", "await">>
    /\ req.returned = Some([status |-> "error", message |-> <<"nothing to report">>])
    /\ req.response.status = "success"
    /\ Get(req.response.result).status = "error"

\* The provider answered a call of a tool of cve_tools with no record.
ZeroRecords(r) ==
    /\ r.tool # None
    /\ r.world # None
    /\ Get(r.tool).func \in CveTools
    /\ Binds(Get(r.tool).func, r.arguments)
    /\ IF Get(r.tool).func = "get_cve_details"
       THEN Get(r.world).cve_data = None
       ELSE Get(r.world).cves = <<>>

\* The text has a character.
NonEmptyText(parts) == \E i \in DOMAIN parts : parts[i] # ""

\* C9 as stated: for every registered tool, when the provider returns zero
\* records the dispatch returns outer status success and a nested result with
\* status "error" and a non-empty message.
C9_EmptyIsToolError ==
    (Done /\ ZeroRecords(req))
    => /\ req.response.kind = "envelope"
       /\ req.response.status = "success"
       /\ Get(req.response.result).status = "error"
       /\ NonEmptyText(Get(req.response.result).message)

\* C9, amended: when the provider returns zero records no tool raises and the
\* dispatch returns outer status success.  For get_cve_details the nested
\* result has status "error" and a non-empty message; for the five search and
\* list tools it has status "success", count 0, no data and no rendered text.
C9_EmptyByTool ==
    (Done /\ ZeroRecords(req))
    => /\ req.outcome = "returned"
       /\ req.response.kind = "envelope"
       /\ req.response.status = "success"
       /\ LET inner == Get(req.response.result) IN
          IF Get(req.tool).func = "get_cve_details"
          THEN /\ inner.status = "error"
               /\ NonEmptyText(inner.message)
               /\ DOMAIN inner = {"status", "message"}
          ELSE /\ inner.status = "success"
               /\ inner.count = 0
               /\ inner.data = <<>>
               /\ inner.rendered = None

\* C9 witness: get_cve_details finds no record and the dispatch succeeds with
\* a nested error.
C9_Witness ==
    /\ Done
    /\ ZeroRecords(req)
    /\ req.tool_name = "get_cve_details"
    /\ req.response.status = "success"
    /\ Get(req.response.result) =
          [status |-> "error",
           message |-> <<"CVE ", "CVE-2021-44228", " not found">>]

\* C10: a dispatch whose Product-Profile header is absent or is no profile
\* code is authorized exactly as one by COMMON: the middleware and the handler
\* both take the caller for COMMON, and the dispatch is access-denied exactly
\* when COMMON is not in the tool's product_profiles.
C10_UnknownHeaderIsCommon ==
    (req.pc # "idle" /\ Unrecognized(req.header))
    => /\ req.profile_enum = "COMMON"
       /\ req.state_product_profile = "COMMON"
       /\ req.tool # None =>
             (req.outcome = "access_denied"
                <=> "COMMON" \notin Elems(Get(req.tool).product_profiles))

\* C10 witness: a request with an unknown code is denied the tool that COMMON
\* is denied.
C10_Witness ==
    /\ Done
    /\ req.header = Some(<<"r", "o", "o", "t">>)
    /\ req.tool_name = "search_cves_by_cvss_score"
    /\ "COMMON" \notin Elems(Get(req.tool).product_profiles)
    /\ req.outcome = "access_denied"

\* C11: from_code returns a profile for every code it is given: the profile
\* whose canonical code is the lower-cased input when there is one, COMMON
\* otherwise.  Checked on the code of every request that carried a header.
C11_FromCodeTotalCaseInsensitive ==
    (req.pc # "idle" /\ req.header # None)
    => LET code == Get(req.header) IN
       /\ req.profile_enum \in Profiles
       /\ req.state_product_profile = req.profile_enum
       /\ \A p \in Profiles : lower(code) = value(p) => req.profile_enum = p
       /\ (\A p \in Profiles : lower(code) # value(p))
             => req.profile_enum = "COMMON"

\* C11 witness: a code that differs from its canonical form by case only is
\* resolved to its profile.
C11_Witness ==
    /\ Done
    /\ req.header = Some(<<"A", "d", "m", "i", "n">>)
    /\ Get(req.header) # value("ADMIN")
    /\ req.profile_enum = "ADMIN"

----------------------------------------------------------------------------
(* Properties of registration. *)

\* How many entries of a tool list carry the name.
Occurrences(list, name) ==
    Cardinality({i \in DOMAIN list : list[i].name = name})

\* C12: after any sequence of registrations, repeated ones of one name
\* included, list_tools(ADMIN) holds each registered name exactly once.
C12_AdminListsEachNameOnce ==
    \A name \in DOMAIN registered :
        Occurrences(list_tools(tools, Some("ADMIN")), name) = 1

\* C12 witness: a name registered by its decorator and then twice more is
\* listed once, beside the five other names.
C12_Witness ==
    /\ nregs = 2
    /\ DOMAIN registered = Elems(cve_tools)
    /\ registered["search_cves_by_cvss_score"].func \in CustomFuncs
    /\ Occurrences(list_tools(tools, Some("ADMIN")), "search_cves_by_cvss_score") = 1
    /\ Len(list_tools(tools, Some("ADMIN"))) = 6

\* The descriptor that the latest registration of a name builds.
LatestTool(name) ==
    Tool(name, registered[name].func, registered[name].input_schema,
         registered[name].product_profiles)

\* A lookup of a registered name returns the descriptor of its latest
\* registration, and every entry of the full listing is such a descriptor.
LookupsSeeLatest ==
    /\ \A name \in DOMAIN registered : get_tool(tools, name) = Some(LatestTool(name))
    /\ \A i \in DOMAIN list_tools(tools, None) :
          /\ tools[i].name \in DOMAIN registered
          /\ list_tools(tools, None)[i] = LatestTool(tools[i].name)

\* The request just taken resolved its name to the descriptor of the latest
\* registration, was authorized against that descriptor's profiles and, when
\* authorized, ran that descriptor's callable.
DispatchUsesLatest ==
    IF req.tool_name \in DOMAIN registered
    THEN LET t == LatestTool(req.tool_name) IN
         /\ req.tool = Some(t)
         /\ req.outcome = "access_denied" <=> AccessDenied(req.profile_enum, t)
         /\ req.world # None => Get(req.world) \in Worlds(t.func)
         /\ req.pc = "awaiting" => t.func = "custom_async"
    ELSE req.tool = None

\* C13: from a registration of a name until the next one of that name,
\* get_tool(name) returns the descriptor which that registration built, and
\* the listing and a dispatch use its callable, schema and profiles, also when
\* the name was registered several times.
C13_LastRegistrationWins ==
    [][/\ LookupsSeeLatest'
       /\ (req.pc = "idle" /\ req'.pc # "idle") => DispatchUsesLatest']_vars

\* C13 witness: the score tool, registered by its decorator for PREMIUM and
\* ADMIN, was registered again with an asynchronous callable for BASIC and
\* COMMON; a BASIC caller is let in and the new callable is being awaited.
C13_Witness ==
    /\ req.pc = "awaiting"
    /\ req.tool_name = "search_cves_by_cvss_score"
    /\ req.profile_enum = "BASIC"
    /\ registered["search_cves_by_cvss_score"] =
          Registration("custom_async", InputSchemaFor("custom_async"),
                       Some(<<"BASIC", "COMMON">>))
    /\ req.tool = get_tool(tools, "search_cves_by_cvss_score")
    /\ Get(req.tool).input_schema = Schema({"x"}, {"x"})

\* C14: in every registry state each descriptor has a product_profiles list
\* that is not empty, and the descriptor of a name whose latest registration
\* gave no product_profiles, or an empty list, has exactly [COMMON].
C14_ProfilesNeverEmpty ==
    /\ \A i \in DOMAIN tools : tools[i].product_profiles # <<>>
    /\ \A name \in DOMAIN registered :
          registered[name].product_profiles \in {None, Some(<<>>)}
          => \A t \in get_tool(tools, name) : t.product_profiles = <<"COMMON">>

\* C14 witness: one name registered without product_profiles and another with
\* the empty list; both descriptors are for COMMON.
C14_Witness ==
    /\ "custom_tool" \in DOMAIN registered
    /\ registered["custom_tool"].product_profiles = None
    /\ registered["search_cves_by_cvss_score"].product_profiles = Some(<<>>)
    /\ Get(get_tool(tools, "custom_tool")).product_profiles = <<"COMMON">>
    /\ Get(get_tool(tools, "search_cves_by_cvss_score")).product_profiles = <<"COMMON">>

----------------------------------------------------------------------------
(* Python str operations, on sequences of one-character strings. *)

\* str.upper() on one character.
UpperChar(c) ==
    IF \E i \in DOMAIN LowerLetters : LowerLetters[i] = c
    THEN UpperLetters[CHOOSE i \in DOMAIN LowerLetters : LowerLetters[i] = c]
    ELSE c

\* str.upper()
upper(s) == [i \in DOMAIN s |-> UpperChar(s[i])]

\* The characters \d matches, among those the queries are written in.
Digits == {"0", "1", "2", "3", "4", "5", "6", "7", "8", "9"}

\* The characters str.strip() removes.
Whitespace == {" ", "\t", "\n", "\r"}

\* s[i : i + len(sub)] == sub, with i counted from 1.
StartsAt(s, i, sub) ==
    /\ i >= 1
    /\ i + Len(sub) - 1 <= Len(s)
    /\ SubSeq(s, i, i + Len(sub) - 1) = sub

\* sub in s
Contains(s, sub) == \E i \in 1..(Len(s) - Len(sub) + 1) : StartsAt(s, i, sub)

RECURSIVE replace(_, _, _)
\* s.replace(old, new), for a non-empty old: the occurrences of old are
\* replaced from the left, without overlap.
replace(s, old, new) ==
    IF Len(s) < Len(old)
    THEN s
    ELSE IF StartsAt(s, 1, old)
         THEN new \o replace(SubSeq(s, Len(old) + 1, Len(s)), old, new)
         ELSE <<s[1]>> \o replace(Tail(s), old, new)

\* s.strip()
strip(s) ==
    LET kept == {i \in DOMAIN s : s[i] \notin Whitespace} IN
    IF kept = {}
    THEN <<>>
    ELSE SubSeq(s, CHOOSE i \in kept : \A j \in kept : i <= j,
                   CHOOSE i \in kept : \A j \in kept : j <= i)

\* All of s[i..j] are digits.
AllDigits(s, i, j) == \A k \in i..j : s[k] \in Digits

\* re.search(r'cve-\d{4}-\d{4,}', s): the leftmost position where "cve-", four
\* digits, "-" and four digits follow one another, and from there as many
\* further digits as there are.  The match object is its text, or None.
re_search_cve(s) ==
    LET starts == {i \in 1..(Len(s) - 12) :
                      /\ StartsAt(s, i, <<"c", "v", "e", "-">>)
                      /\ AllDigits(s, i + 4, i + 7)
                      /\ s[i + 8] = "-"
                      /\ AllDigits(s, i + 9, i + 12)}
    IN  IF starts = {}
        THEN None
        ELSE LET i == CHOOSE k \in starts : \A l \in starts : k <= l
                 j == CHOOSE k \in (i + 12)..Len(s) :
                         /\ AllDigits(s, i + 13, k)
                         /\ k < Len(s) => s[k + 1] \notin Digits
             IN  Some(SubSeq(s, i, j))

----------------------------------------------------------------------------
(* src/cve_agent_pkg/core, src/cve_agent_pkg/mcp/tools.py: CVEMCPTools.     *)
(* The database and the template renderer are external: what the database  *)
(* finds and whether rendering succeeds are inputs of each call.            *)

\* Documents of the collection as the driver returns them, with their _id.
Documents ==
    {[_id |-> "65f0", cve_no |-> <<"C", "V", "E", "-", "2", "0", "2", "1",
                                   "-", "4", "4", "2", "2", "8">>, cve_title |-> "Log4Shell"]}

DocumentLists == UNION {[1..n -> Documents] : n \in 0..MaxRecords}

\* What one call finds: the documents matching its query, and whether the
\* template renders.
DbWorlds == [docs : DocumentLists, renders : BOOLEAN]

\* if '_id' in cve: del cve['_id']
del_id(cve) == [k \in DOMAIN cve \ {"_id"} |-> cve[k]]

\* dict.get(key, default)
get(d, key, default) == IF key \in DOMAIN d THEN d[key] ELSE default

\* CVETemplateRenderer.render_*: the text is named by its template and data;
\* loading or rendering the template can raise.
render(template, data, world) ==
    IF world.renders
    THEN Return(<<[template |-> template, data |-> data]>>)
    ELSE Raise([cls |-> "TemplateError", msg |-> template])

\* renderer_map.get(format, self.renderer.render_detailed)
renderer_map(format) ==
    CASE format = "detailed" -> "cve_detailed.jinja"
      [] format = "summary" -> "cve_summary.jinja"
      [] format = "json" -> "cve_json.jinja"
      [] format = "markdown" -> "cve_markdown.jinja"
      [] OTHER -> "cve_detailed.jinja"

\* CVEMCPTools._get_cve_details(cve_id, format="detailed"); the database's
\* get_cve_by_id is find_one, the first matching document or None.
_get_cve_details(arguments, world) ==
    LET cve_id == arguments.cve_id
        format == get(arguments, "format", "detailed")
    IN  IF world.docs = <<>>
        THEN Return([success |-> FALSE,
                     error |-> "CVE {cve_id} not found in database",
                     cve_id |-> cve_id])
        ELSE
        LET cve == del_id(world.docs[1])
            rendered == render(renderer_map(format), cve, world)
        IN  IF rendered.kind = "raise"
            THEN rendered
            ELSE Return([success |-> TRUE,
                         data |-> [cve_id |-> cve_id,
                                   cve_title |-> get(cve, "cve_title", "N/A"),
                                   exploit_maturity |->
                                       get(cve, "exploit_code_maturity", "N/A"),
                                   format |-> format,
                                   rendered_output |-> rendered.value,
                                   raw_data |-> cve]])

\* CVEMCPTools._search_cves_by_exploit_maturity(maturity, limit=10); its own
\* try/except turns an exception into a failure.
_search_cves_by_exploit_maturity(arguments, world) ==
    LET maturity == arguments.maturity IN
    IF world.docs = <<>>
    THEN Return([success |-> FALSE,
                 error |-> "No CVEs found with exploit maturity '{maturity}'",
                 maturity |-> maturity])
    ELSE
    LET cves == [i \in DOMAIN world.docs |-> del_id(world.docs[i])]
        rendered == render("cve_list.jinja", cves, world)
    IN  IF rendered.kind = "raise"
        THEN Return([success |-> FALSE,
                     error |-> "Search failed: {str(e)}",
                     e |-> str(rendered.exc)])
        ELSE Return([success |-> TRUE,
                     data |-> [exploit_maturity |-> maturity,
                               count |-> Len(cves),
                               rendered_output |-> rendered.value,
                               cves |-> cves]])

\* CVEMCPTools._search_cves_by_keyword(keyword, limit=10); it has no
\* try/except of its own.
_search_cves_by_keyword(arguments, world) ==
    LET keyword == arguments.keyword IN
    IF world.docs = <<>>
    THEN Return([success |-> FALSE,
                 error |-> "No CVEs found matching keyword '{keyword}'",
                 keyword |-> keyword])
    ELSE
    LET cves == [i \in DOMAIN world.docs |-> del_id(world.docs[i])]
        rendered == render("cve_list.jinja", cves, world)
    IN  IF rendered.kind = "raise"
        THEN rendered
        ELSE Return([success |-> TRUE,
                     data |-> [keyword |-> keyword,
                               count |-> Len(cves),
                               rendered_output |-> rendered.value,
                               cves |-> cves]])

\* The keys of tool_map in execute_tool.
tool_map ==
    {"get_cve_details", "search_cves_by_exploit_maturity",
     "search_cves_by_classification", "search_cves_by_keyword",
     "search_cves_by_cisa_kev", "get_cve_statistics"}

\* The parameters of the tool methods that are modelled, and those of them
\* without a default.
method_params(tool_name) ==
    CASE tool_name = "get_cve_details" -> {"cve_id", "format"}
      [] tool_name = "search_cves_by_exploit_maturity" -> {"maturity", "limit"}
      [] tool_name = "search_cves_by_keyword" -> {"keyword", "limit"}

method_required(tool_name) ==
    CASE tool_name = "get_cve_details" -> {"cve_id"}
      [] tool_name = "search_cves_by_exploit_maturity" -> {"maturity"}
      [] tool_name = "search_cves_by_keyword" -> {"keyword"}

\* tool_map[tool_name](**arguments) binds the arguments to the parameters.
binds(tool_name, arguments) ==
    /\ method_required(tool_name) \subseteq DOMAIN arguments
    /\ DOMAIN arguments \subseteq method_params(tool_name)

\* CVEMCPTools.execute_tool.  Of the six tools the three that the rule-based
\* routing calls are modelled.  A call that does not bind raises TypeError
\* inside the try.
execute_tool(connected, tool_name, arguments, world) ==
    IF ~connected
    THEN [success |-> FALSE, error |-> "Not connected to database"]
    ELSE IF tool_name \notin tool_map
    THEN [success |-> FALSE, error |-> "Unknown tool: {tool_name}",
          tool_name |-> tool_name]
    ELSE IF ~binds(tool_name, arguments)
    THEN [success |-> FALSE, error |-> "Tool execution failed: {str(e)}",
          e |-> str([cls |-> "TypeError", msg |-> tool_name])]
    ELSE
    LET outcome ==
            CASE tool_name = "get_cve_details" ->
                    _get_cve_details(arguments, world)
              [] tool_name = "search_cves_by_exploit_maturity" ->
                    _search_cves_by_exploit_maturity(arguments, world)
              [] tool_name = "search_cves_by_keyword" ->
                    _search_cves_by_keyword(arguments, world)
    IN  IF outcome.kind = "raise"
        THEN [success |-> FALSE, error |-> "Tool execution failed: {str(e)}",
              e |-> str(outcome.exc)]
        ELSE outcome.value

----------------------------------------------------------------------------
(* src/cve_agent_pkg/mcp/agent.py: MCPAgent, the rule-based routing. *)

\* A routing decision: the tool to call and its arguments.
Decision(tool_called, tool_arguments) ==
    [tool_called |-> tool_called, tool_arguments |-> tool_arguments]

\* cve_match = re.search(r'cve-\d{4}-\d{4,}', query_lower)
cve_match(query_lower) == re_search_cve(query_lower)

\* A plausible slip: the format is not taken from the query.
format_type_AlwaysDetailed(query_lower) == "detailed"

\* format_type = "summary" if "summary" in query_lower else "detailed"
format_type(query_lower) ==
    IF Contains(query_lower, <<"s", "u", "m", "m", "a", "r", "y">>) THEN "summary" ELSE "detailed"

\* The CVE-id branch: the matched text, upper-cased, is looked up.
rule_cve_id(query_lower) ==
    IF cve_match(query_lower) = None
    THEN None
    ELSE Some(Decision("get_cve_details",
                       [cve_id |-> upper(Get(cve_match(query_lower))),
                        format |-> format_type(query_lower)]))

\* A plausible slip: "high" is left to a severity rule.
maturity_map_NoHigh ==
    <<[keyword |-> <<"f", "u", "n", "c", "t", "i", "o", "n", "a", "l">>, maturity |-> "Functional"],
      [keyword |-> <<"p", "r", "o", "o", "f", " ", "o", "f", " ", "c", "o",
                     "n", "c", "e", "p", "t">>, maturity |-> "Proof of Concept"],
      [keyword |-> <<"u", "n", "p", "r", "o", "v", "e", "n">>, maturity |-> "Unproven"]>>

\* A plausible slip: "high" is looked for last.
maturity_map_HighLast ==
    <<[keyword |-> <<"f", "u", "n", "c", "t", "i", "o", "n", "a", "l">>, maturity |-> "Functional"],
      [keyword |-> <<"p", "r", "o", "o", "f", " ", "o", "f", " ", "c", "o",
                     "n", "c", "e", "p", "t">>, maturity |-> "Proof of Concept"],
      [keyword |-> <<"u", "n", "p", "r", "o", "v", "e", "n">>, maturity |-> "Unproven"],
      [keyword |-> <<"h", "i", "g", "h">>, maturity |-> "High"]>>

\* maturity_map, a dict: its items in insertion order.
maturity_map ==
    <<[keyword |-> <<"f", "u", "n", "c", "t", "i", "o", "n", "a", "l">>, maturity |-> "Functional"],
      [keyword |-> <<"p", "r", "o", "o", "f", " ", "o", "f", " ", "c", "o",
                     "n", "c", "e", "p", "t">>, maturity |-> "Proof of Concept"],
      [keyword |-> <<"h", "i", "g", "h">>, maturity |-> "High"],
      [keyword |-> <<"u", "n", "p", "r", "o", "v", "e", "n">>, maturity |-> "Unproven"]>>

\* The maturity loop: the first item of maturity_map whose keyword is in the
\* query decides.
rule_maturity(query_lower) ==
    LET hits == {i \in DOMAIN maturity_map :
                    Contains(query_lower, maturity_map[i].keyword)}
    IN  IF hits = {}
        THEN None
        ELSE LET i == CHOOSE k \in hits : \A l \in hits : k <= l IN
             Some(Decision("search_cves_by_exploit_maturity",
                           [maturity |-> maturity_map[i].maturity, limit |-> 5]))

\* A plausible slip: only "look" opens the keyword branch.
search_words_OnlyLook == {<<"l", "o", "o", "k">>}

\* The words of `any(word in query_lower for word in [...])`.
search_words == {<<"s", "e", "a", "r", "c", "h">>, <<"f", "i", "n", "d">>, <<"l", "o", "o", "k">>}

\* keywords = query_lower.replace("search for", "").replace("find", "")
\*                       .replace("look for", "").strip()
keywords(query_lower) ==
    LET search_for == <<"s", "e", "a", "r", "c", "h", " ", "f", "o", "r">>
        find == <<"f", "i", "n", "d">>
        look_for == <<"l", "o", "o", "k", " ", "f", "o", "r">>
    IN  strip(replace(replace(replace(query_lower, search_for, <<>>),
                              find, <<>>),
                      look_for, <<>>))

\* A plausible slip: the keyword search is the fallback of every query.
rule_keyword_Always(query_lower) ==
    Some(Decision("search_cves_by_keyword",
                  [keyword |-> keywords(query_lower), limit |-> 5]))

\* The keyword branch: taken when a search word is in the query and
\* something is left of the query to search for.
rule_keyword(query_lower) ==
    IF /\ \E word \in search_words : Contains(query_lower, word)
       /\ keywords(query_lower) # <<>>
    THEN Some(Decision("search_cves_by_keyword",
                       [keyword |-> keywords(query_lower), limit |-> 5]))
    ELSE None

\* The first of the given optional decisions that is one.
FirstOf(decisions) ==
    LET made == {i \in DOMAIN decisions : decisions[i] # None} IN
    IF made = {}
    THEN None
    ELSE decisions[CHOOSE i \in made : \A j \in made : i <= j]

\* A plausible slip: a recency rule ahead of the maturity loop.
route_Recency(query_lower) ==
    LET words == {<<"r", "e", "c", "e", "n", "t">>,
                  <<"l", "a", "t", "e", "s", "t">>,
                  <<"n", "e", "w", "l", "y">>,
                  <<"n", "e", "w">>}
    IN  FirstOf(<<rule_cve_id(query_lower),
                  IF \E word \in words : Contains(query_lower, word)
                  THEN Some(Decision("list_recent_cves", [limit |-> 10]))
                  ELSE None,
                  rule_maturity(query_lower),
                  rule_keyword(query_lower)>>)

\* The branches of _process_rule_based in program order; the first that
\* applies returns.
route(query_lower) ==
    FirstOf(<<rule_cve_id(query_lower),
              rule_maturity(query_lower),
              rule_keyword(query_lower)>>)

\* The help message returned when no branch applies.
HelpResponse(user_query) ==
    [success |-> TRUE,
     query |-> user_query,
     response |-> "Try: 'Show me CVE-XXXX-XXXX', 'Find functional exploits', or 'Search for SQL injection'",
     llm_used |-> FALSE]

\* MCPAgent._process_rule_based
_process_rule_based(connected, user_query, world) ==
    LET query_lower == lower(user_query)
        decision == route(query_lower)
    IN  IF decision = None
        THEN HelpResponse(user_query)
        ELSE
        LET tool_called == Get(decision).tool_called
            tool_arguments == Get(decision).tool_arguments
            result == execute_tool(connected, tool_called, tool_arguments, world)
        IN  [success |-> result.success,
             query |-> user_query,
             tool_called |-> tool_called,
             tool_arguments |-> tool_arguments,
             result |-> result,
             rendered_output |-> get(get(result, "data", EmptyDict),
                                     "rendered_output", <<>>),
             llm_used |-> FALSE]

\* The queries put to the agent, as typed.
Queries ==
    { <<"S", "h", "o", "w", " ", "m", "e", " ", "C", "V", "E", "-", "2", "0",
        "2", "1", "-", "4", "4", "2", "2", "8">>,
      <<"s", "u", "m", "m", "a", "r", "y", " ", "o", "f", " ", "c", "v", "e",
        "-", "2", "0", "2", "1", "-", "4", "4", "2", "2", "8">>,
      <<"f", "i", "n", "d", " ", "h", "i", "g", "h", " ", "C", "V", "E", "-",
        "2", "0", "1", "4", "-", "0", "1", "6", "0", "0", " ", "a", "n", "d",
        " ", "C", "V", "E", "-", "2", "0", "2", "1", "-", "4", "4", "2", "2",
        "8">>,
      <<"l", "a", "t", "e", "s", "t", " ", "s", "c", "o", "r", "e", " ", "7",
        " ", "t", "o", " ", "9", " ", "f", "o", "r", " ", "C", "v", "e", "-",
        "2", "0", "2", "1", "-", "4", "4", "2", "2", "8">>,
      <<"C", "V", "E", "-", "2", "0", "2", "1", "-", "4", "4", "2">>,
      <<"F", "i", "n", "d", " ", "c", "r", "i", "t", "i", "c", "a", "l", " ",
        "v", "u", "l", "n", "e", "r", "a", "b", "i", "l", "i", "t", "i", "e",
        "s">>,
      <<"h", "i", "g", "h", " ", "s", "e", "v", "e", "r", "i", "t", "y">>,
      <<"m", "e", "d", "i", "u", "m", " ", "r", "i", "s", "k">>,
      <<"l", "o", "o", "k", " ", "f", "o", "r", " ", "l", "o", "w", " ", "s",
        "e", "v", "e", "r", "i", "t", "y">>,
      <<"h", "i", "g", "h", "l", "i", "g", "h", "t", "s">>,
      <<"c", "r", "i", "t", "i", "c", "a", "l", " ", "a", "n", "d", " ", "h",
        "i", "g", "h">>,
      <<"F", "i", "n", "d", " ", "f", "u", "n", "c", "t", "i", "o", "n", "a",
        "l", " ", "e", "x", "p", "l", "o", "i", "t", "s">>,
      <<"P", "r", "o", "o", "f", " ", "o", "f", " ", "C", "o", "n", "c", "e",
        "p", "t">>,
      <<"u", "n", "p", "r", "o", "v", "e", "n">>,
      <<"u", "n", "p", "r", "o", "v", "e", "n", " ", "h", "i", "g", "h", "l",
        "i", "g", "h", "t", "s">>,
      <<"h", "i", "g", "h", " ", "u", "n", "p", "r", "o", "v", "e", "n", " ",
        "n", "e", "w">>,
      <<"x", "y", "z", "z", "y", "1", "2", "3", "4", "5">>,
      <<"S", "e", "a", "r", "c", "h", " ", "f", "o", "r", " ", "S", "Q", "L",
        " ", "i", "n", "j", "e", "c", "t", "i", "o", "n">>,
      <<"f", "i", "n", "d">>,
      <<>>,
      <<"L", "a", "t", "e", "s", "t", " ", "v", "u", "l", "n", "e", "r", "a",
        "b", "i", "l", "i", "t", "i", "e", "s">>,
      <<"f", "i", "n", "d", " ", "n", "e", "w", " ", "C", "V", "E", "s">>,
      <<"r", "e", "n", "e", "w", "a", "l">>,
      <<"s", "c", "o", "r", "e", " ", "b", "e", "t", "w", "e", "e", "n", " ",
        "7", " ", "a", "n", "d", " ", "9">>,
      <<"s", "e", "a", "r", "c", "h", " ", "c", "v", "s", "s", " ", "7", "-",
        "9">>,
      <<"f", "i", "n", "d", " ", "s", "c", "o", "r", "e", " ", "9", " ", "t",
        "o", " ", "7">>,
      <<"s", "c", "o", "r", "e", " ", "1", "1", " ", "t", "o", " ", "1", "2">>,
      <<" ", "l", "o", "o", "k", " ", "u", "p", " ", "l", "o", "g", "4", "j",
        " ">>}

\* The queries of a conversation.
ConversationQueries ==
    {<<"x", "y", "z", "z", "y", "1", "2", "3", "4", "5">>,
     <<"u", "n", "p", "r", "o", "v", "e", "n">>,
     <<"S", "h", "o", "w", " ", "m", "e", " ", "C", "V", "E", "-", "2", "0", "2", "1", "-", "4", "4", "2", "2", "8">>,
     <<"f", "i", "n", "d", " ", "n", "e", "w", " ", "C", "V", "E", "s">>}

\* " ".join(texts)
RECURSIVE join(_)
join(texts) ==
    IF Len(texts) = 0 THEN <<>>
    ELSE IF Len(texts) = 1 THEN texts[1]
    ELSE texts[1] \o <<" ">> \o join(Tail(texts))

\* A plausible slip: the rules are applied to the whole conversation, as
\* the LLM path sends it, instead of the query.
process_query_WholeHistory(a, user_query, world) ==
    LET history == Append(a.conversation_history,
                          [role |-> "user", content |-> user_query])
    IN  [agent |-> [a EXCEPT !.conversation_history = history],
         returned |-> _process_rule_based(
                          a.connected,
                          join([i \in DOMAIN history |-> history[i].content]),
                          world)]

\* MCPAgent.process_query without an llm_client: the query is appended to
\* the conversation history, then routed by rule.  The new agent state and
\* the returned value.
process_query(a, user_query, world) ==
    [agent |-> [a EXCEPT !.conversation_history =
                    Append(@, [role |-> "user", content |-> user_query])],
     returned |-> _process_rule_based(a.connected, user_query, world)]

\* MCPAgent.connect: CVEMCPTools.connect stores what the database's connect
\* returned.
connect(a, db_connect) == [a EXCEPT !.connected = db_connect]

\* A plausible slip: the database is disconnected and the flag is left.
disconnect_KeepsFlag(a) == a

\* MCPAgent.disconnect
disconnect(a) == [a EXCEPT !.connected = FALSE]

----------------------------------------------------------------------------
(* The agent's state machine. *)

\* The tool and arguments that a returned value names, if it names any.
decision_of(returned) ==
    IF "tool_called" \in DOMAIN returned
    THEN Some(Decision(returned.tool_called, returned.tool_arguments))
    ELSE None

\* agent.connect() is called.
Connect ==
    /\ \E db_connect \in BOOLEAN :
          /\ agent' = connect(agent, db_connect)
          /\ connection' = IF db_connect THEN "connected" ELSE "failed"
    /\ UNCHANGED <<answer, decided, server_vars, client_vars>>

\* agent.disconnect() is called.
Disconnect ==
    /\ agent' = disconnect(agent)
    /\ connection' = "disconnected"
    /\ UNCHANGED <<answer, decided, server_vars, client_vars>>

\* agent.process_query(user_query) is called and returns.
ProcessQuery ==
    /\ Len(agent.conversation_history) < MaxHistory
    /\ \E user_query \in Queries, world \in DbWorlds :
          LET done == process_query(agent, user_query, world) IN
          /\ agent' = done.agent
          /\ answer' = Some(done.returned)
          /\ decided' = Append(decided, decision_of(done.returned))
    /\ UNCHANGED <<connection, server_vars, client_vars>>

\* The calls of execute_tool made on the tools object itself: of the tools
\* with arguments that bind and that do not, and of a name that is no tool.
ToolCalls ==
    {[tool_name |-> "get_cve_details",
      arguments |-> [cve_id |-> <<"C", "V", "E", "-", "1">>]],
     [tool_name |-> "get_cve_details", arguments |-> EmptyDict],
     [tool_name |-> "search_cves_by_keyword",
      arguments |-> [keyword |-> <<"s", "q", "l">>, limit |-> 5]],
     [tool_name |-> "search_cves_by_exploit_maturity",
      arguments |-> [maturity |-> "Functional", severity |-> "HIGH"]],
     [tool_name |-> "drop_database", arguments |-> EmptyDict]}

\* tools.execute_tool(tool_name, arguments) is called and returns; answer
\* keeps the call, what the database and the renderer did for it, and how
\* the latest connect or disconnect before it had ended.
ExecuteTool ==
    /\ \E call \in ToolCalls, world \in DbWorlds :
          answer' = Some([tool_name |-> call.tool_name,
                          arguments |-> call.arguments,
                          world |-> world,
                          connection |-> connection,
                          result |-> execute_tool(agent.connected, call.tool_name,
                                                  call.arguments, world)])
    /\ UNCHANGED <<agent, decided, connection, server_vars, client_vars>>

\* The tools object connected, used and disconnected.
NextTools == Connect \/ Disconnect \/ ExecuteTool

SpecTools == Init /\ [][NextTools]_vars

NextAgent == Connect \/ Disconnect \/ ProcessQuery

SpecAgent == Init /\ [][NextAgent]_vars

\* A conversation: agent.process_query is called again and again, with
\* queries of a few kinds (no rule, maturity, CVE id, search words).
Converse ==
    /\ Len(agent.conversation_history) < MaxConversation
    /\ \E user_query \in ConversationQueries, world \in DbWorlds :
          LET done == process_query(agent, user_query, world) IN
          /\ agent' = done.agent
          /\ answer' = Some(done.returned)
          /\ decided' = Append(decided, decision_of(done.returned))
    /\ UNCHANGED <<connection, server_vars, client_vars>>

NextConversation == Connect \/ Disconnect \/ Converse

SpecConversation == Init /\ [][NextConversation]_vars

----------------------------------------------------------------------------
(* Properties of the rule-based routing. *)

\* process_query has returned; its query, lower-cased, and what it selected.
Asked == answer # None

AskedLower == lower(Get(answer).query)

Selected(tool_name) ==
    /\ "tool_called" \in DOMAIN Get(answer)
    /\ Get(answer).tool_called = tool_name

NothingSelected == "tool_called" \notin DOMAIN Get(answer)

\* s[i..j] has the shape cve-<4 digits>-<4 or more digits>.
CveIdAt(s, i, j) ==
    /\ StartsAt(s, i, <<"c", "v", "e", "-">>)
    /\ j >= i + 12
    /\ j <= Len(s)
    /\ AllDigits(s, i + 4, i + 7)
    /\ s[i + 8] = "-"
    /\ AllDigits(s, i + 9, j)

HasCveId(s) == \E i, j \in DOMAIN s : CveIdAt(s, i, j)

\* s[i..j] is the leftmost text of that shape, taken as long as it goes.
FirstCveIdAt(s, i, j) ==
    /\ CveIdAt(s, i, j)
    /\ \A k, l \in DOMAIN s : CveIdAt(s, k, l) => (i < k \/ (i = k /\ l <= j))

\* The details tool was selected for the upper-cased first CVE id of the
\* query, with the given output format.
DetailsOfFirstId(format) ==
    /\ Selected("get_cve_details")
    /\ \E i, j \in DOMAIN AskedLower :
          /\ FirstCveIdAt(AskedLower, i, j)
          /\ Get(answer).tool_arguments.cve_id = upper(SubSeq(AskedLower, i, j))
    /\ Get(answer).tool_arguments.format = format

\* C15 as stated: a query with a CVE id is routed to the details tool with the
\* upper-cased id and the format "detailed", whatever else it contains.
C15_CveIdIsDetailed ==
    (Asked /\ HasCveId(AskedLower)) => DetailsOfFirstId("detailed")

\* C15: a query with a CVE id is routed to the details tool with the
\* upper-cased leftmost id, whatever else it contains; the format is
\* "summary" when the query contains "summary" and "detailed" otherwise.
C15_CveIdIsDetailedOrSummary ==
    (Asked /\ HasCveId(AskedLower))
    => LET summary == <<"s", "u", "m", "m", "a", "r", "y">> IN
       DetailsOfFirstId(IF Contains(AskedLower, summary)
                        THEN "summary" ELSE "detailed")

\* C15 witness: the summary of a CVE was asked for, of a connected agent whose
\* database has it.
C15_Witness ==
    /\ Asked
    /\ Get(answer).query = <<"s", "u", "m", "m", "a", "r", "y", " ", "o",
                             "f", " ", "c", "v", "e", "-", "2", "0", "2",
                             "1", "-", "4", "4", "2", "2", "8">>
    /\ Get(answer).tool_arguments =
          [cve_id |-> <<"C", "V", "E", "-", "2", "0", "2", "1", "-", "4",
                        "4", "2", "2", "8">>, format |-> "summary"]
    /\ Get(answer).success
    /\ Get(answer).result.data.format = "summary"

\* The characters of a word, in a lower-cased text.
WordChars == Elems(LowerLetters) \cup Digits \cup {"_"}

\* w occurs in s as a whole word.
WholeWord(s, w) ==
    \E i \in DOMAIN s :
        /\ StartsAt(s, i, w)
        /\ i > 1 => s[i - 1] \notin WordChars
        /\ i + Len(w) <= Len(s) => s[i + Len(w)] \notin WordChars

\* The severity words in the order the severity rule is described to check
\* them, with their labels.
SeverityWords ==
    <<[word |-> <<"c", "r", "i", "t", "i", "c", "a", "l">>, label |-> "CRITICAL"],
      [word |-> <<"h", "i", "g", "h">>, label |-> "HIGH"],
      [word |-> <<"m", "e", "d", "i", "u", "m">>, label |-> "MEDIUM"],
      [word |-> <<"l", "o", "w">>, label |-> "LOW"]>>

HasSeverityWord(s) ==
    \E i \in DOMAIN SeverityWords : WholeWord(s, SeverityWords[i].word)

\* The query contains one of the four maturity keywords.
HasMaturityKeyword(s) ==
    \E k \in {<<"f", "u", "n", "c", "t", "i", "o", "n", "a", "l">>,
              <<"p", "r", "o", "o", "f", " ", "o", "f", " ", "c", "o", "n", "c", "e", "p", "t">>,
              <<"h", "i", "g", "h">>,
              <<"u", "n", "p", "r", "o", "v", "e", "n">>} :
        Contains(s, k)

\* The keyword branch applies: a search word is in the query and text is
\* left when "search for", "find" and "look for" are taken out.
HasSearchText(s) ==
    /\ \E w \in {<<"s", "e", "a", "r", "c", "h">>,
                  <<"f", "i", "n", "d">>,
                  <<"l", "o", "o", "k">>} :
          Contains(s, w)
    /\ \E i \in DOMAIN keywords(s) : TRUE

\* The query was routed as one without CVE id and without maturity keyword:
\* to the keyword search for what is left of it, or to no tool.
RoutedAsPlainText ==
    IF HasSearchText(AskedLower)
    THEN /\ Selected("search_cves_by_keyword")
         /\ Get(answer).tool_arguments =
               [keyword |-> keywords(AskedLower), limit |-> 5]
    ELSE /\ NothingSelected
         /\ Get(answer).success
         /\ "response" \in DOMAIN Get(answer)

\* C16 as stated: a query without CVE id that has a severity word is routed
\* to the severity search with the label of the first of critical, high,
\* medium, low that it has, and limit 10.
C16_SeverityWordIsSeveritySearch ==
    (Asked /\ ~HasCveId(AskedLower) /\ HasSeverityWord(AskedLower))
    => /\ Selected("search_cves_by_severity")
       /\ \E i \in DOMAIN SeverityWords :
             /\ WholeWord(AskedLower, SeverityWords[i].word)
             /\ \A j \in 1..(i - 1) : ~WholeWord(AskedLower, SeverityWords[j].word)
             /\ Get(answer).tool_arguments.severity = SeverityWords[i].label
       /\ Get(answer).tool_arguments.limit = 10

\* C16: no query is routed to a severity search.  A query without CVE id
\* that has a severity word goes to the exploit-maturity search for "High",
\* limit 5, when it contains "high" and neither "functional" nor "proof of
\* concept", and goes the way of plain text when it has no maturity keyword.
C16_SeverityWordIsNoRule ==
    (Asked /\ ~HasCveId(AskedLower) /\ HasSeverityWord(AskedLower))
    => /\ ~Selected("search_cves_by_severity")
       /\ (/\ Contains(AskedLower, <<"h", "i", "g", "h">>)
           /\ ~Contains(AskedLower, <<"f", "u", "n", "c", "t", "i", "o", "n",
                                      "a", "l">>)
           /\ ~Contains(AskedLower, <<"p", "r", "o", "o", "f", " ", "o", "f",
                                      " ", "c", "o", "n", "c", "e", "p", "t">>))
          => /\ Selected("search_cves_by_exploit_maturity")
             /\ Get(answer).tool_arguments = [maturity |-> "High", limit |-> 5]
       /\ ~HasMaturityKeyword(AskedLower) => RoutedAsPlainText

\* C16 witness: "Find critical vulnerabilities" became a keyword search for
\* "critical vulnerabilities".
C16_Witness ==
    /\ Asked
    /\ Get(answer).query = <<"F", "i", "n", "d", " ", "c", "r", "i", "t",
                             "i", "c", "a", "l", " ", "v", "u", "l", "n",
                             "e", "r", "a", "b", "i", "l", "i", "t", "i",
                             "e", "s">>
    /\ WholeWord(AskedLower, <<"c", "r", "i", "t", "i", "c", "a", "l">>)
    /\ Selected("search_cves_by_keyword")
    /\ Get(answer).tool_arguments =
          [keyword |-> <<"c", "r", "i", "t", "i", "c", "a", "l", " ", "v",
                         "u", "l", "n", "e", "r", "a", "b", "i", "l", "i",
                         "t", "i", "e", "s">>, limit |-> 5]

\* The maturity keywords with their levels.
MaturityLevel(k) ==
    CASE k = <<"f", "u", "n", "c", "t", "i", "o", "n", "a", "l">> -> "Functional"
      [] k = <<"p", "r", "o", "o", "f", " ", "o", "f", " ", "c", "o", "n",
               "c", "e", "p", "t">> -> "Proof of Concept"
      [] k = <<"u", "n", "p", "r", "o", "v", "e", "n">> -> "Unproven"
      [] k = <<"h", "i", "g", "h">> -> "High"

\* The exploit-maturity search was selected for the first keyword of the
\* given order that the query contains, with the given limit.
MaturityOfFirst(order, limit) ==
    /\ Selected("search_cves_by_exploit_maturity")
    /\ \E i \in DOMAIN order :
          /\ Contains(AskedLower, order[i])
          /\ \A j \in 1..(i - 1) : ~Contains(AskedLower, order[j])
          /\ Get(answer).tool_arguments.maturity = MaturityLevel(order[i])
    /\ Get(answer).tool_arguments.limit = limit

\* The query contains one of recent, latest, newly, new.
HasRecencyWord(s) ==
    \E w \in {<<"r", "e", "c", "e", "n", "t">>,
              <<"l", "a", "t", "e", "s", "t">>,
              <<"n", "e", "w", "l", "y">>,
              <<"n", "e", "w">>} :
        Contains(s, w)

\* The maturity keywords in the order they are described to be checked in,
\* and in the order of maturity_map.
DescribedOrder ==
    <<<<"f", "u", "n", "c", "t", "i", "o", "n", "a", "l">>,
      <<"p", "r", "o", "o", "f", " ", "o", "f", " ", "c", "o", "n", "c", "e", "p", "t">>,
      <<"u", "n", "p", "r", "o", "v", "e", "n">>,
      <<"h", "i", "g", "h">>>>

MapOrder ==
    <<<<"f", "u", "n", "c", "t", "i", "o", "n", "a", "l">>,
      <<"p", "r", "o", "o", "f", " ", "o", "f", " ", "c", "o", "n", "c", "e", "p", "t">>,
      <<"h", "i", "g", "h">>,
      <<"u", "n", "p", "r", "o", "v", "e", "n">>>>

\* C17 as stated: a query without CVE id, severity word and recency word that
\* contains a maturity keyword is routed to the exploit-maturity search for
\* the first of functional, proof of concept, unproven, high, with limit 10;
\* a query with the whole word "high" is not routed there.
C17_MaturityAfterSeverity ==
    (Asked /\ ~HasCveId(AskedLower))
    => /\ (/\ ~HasSeverityWord(AskedLower)
           /\ ~HasRecencyWord(AskedLower)
           /\ HasMaturityKeyword(AskedLower))
          => MaturityOfFirst(DescribedOrder, 10)
       /\ WholeWord(AskedLower, <<"h", "i", "g", "h">>)
          => ~Selected("search_cves_by_exploit_maturity")

\* C17: a query without CVE id that contains a maturity keyword is routed to
\* the exploit-maturity search for the first of functional, proof of concept,
\* high, unproven that it contains, with limit 5, whatever severity or
\* recency words it has; so is a query with the whole word "high".
C17_MaturityInMapOrder ==
    (Asked /\ ~HasCveId(AskedLower) /\ HasMaturityKeyword(AskedLower))
    => MaturityOfFirst(MapOrder, 5)

\* C17 witness: a query with "unproven" and, inside a longer word, "high" was
\* routed to the maturity level High.
C17_Witness ==
    /\ Asked
    /\ Get(answer).query = <<"u", "n", "p", "r", "o", "v", "e", "n", " ",
                             "h", "i", "g", "h", "l", "i", "g", "h", "t",
                             "s">>
    /\ ~WholeWord(AskedLower, <<"h", "i", "g", "h">>)
    /\ Selected("search_cves_by_exploit_maturity")
    /\ Get(answer).tool_arguments = [maturity |-> "High", limit |-> 5]

RECURSIVE int(_)
\* int(s) of a digit string.
int(s) ==
    IF s = <<>>
    THEN 0
    ELSE 10 * int(SubSeq(s, 1, Len(s) - 1))
         + (CHOOSE d \in 0..9 : ToString(d) = s[Len(s)])

\* s[i..j] is a number: digits, with no digit before or after.
NumberAt(s, i, j) ==
    /\ i <= j
    /\ AllDigits(s, i, j)
    /\ i > 1 => s[i - 1] \notin Digits
    /\ j < Len(s) => s[j + 1] \notin Digits

\* The pairs <<N, M>> that the query has as N <sep> M, sep being a hyphen,
\* "to" or "and".
NumberPairs(s) ==
    LET numbers == {n \in (DOMAIN s) \X (DOMAIN s) : NumberAt(s, n[1], n[2])}
        sep(n, m) == strip(SubSeq(s, n[2] + 1, m[1] - 1))
    IN  {<<int(SubSeq(s, p[1][1], p[1][2])), int(SubSeq(s, p[2][1], p[2][2]))>> :
            p \in {q \in numbers \X numbers :
                     /\ q[1][2] < q[2][1]
                     /\ sep(q[1], q[2]) \in
                           {<<"-">>, <<"t", "o">>, <<"a", "n", "d">>}}}

\* The score rule as described: "score" or "cvss", and a pair of numbers in
\* [0,10] with N <= M.
MentionsScore(s) == Contains(s, <<"s", "c", "o", "r", "e">>) \/ Contains(s, <<"c", "v", "s", "s">>)

ScoreRanges(s) ==
    IF MentionsScore(s)
    THEN {p \in NumberPairs(s) : p[1] <= p[2] /\ p[2] <= 10}
    ELSE {}

\* No pattern rule of the description applies to the query.
MatchesNoRule(s) ==
    /\ ~HasCveId(s)
    /\ ~HasSeverityWord(s)
    /\ ~HasRecencyWord(s)
    /\ ~HasMaturityKeyword(s)
    /\ ScoreRanges(s) = {}

\* C18 as stated: every query gets a decision that names a tool, and a query
\* that no pattern rule matches is routed to the keyword search for the query
\* text as typed, with limit 10.
C18_FallbackIsKeywordSearch ==
    Asked
    => /\ ~NothingSelected
       /\ MatchesNoRule(AskedLower)
          => /\ Selected("search_cves_by_keyword")
             /\ Get(answer).tool_arguments.keyword = Get(answer).query
             /\ Get(answer).tool_arguments.limit = 10

\* C18: every query gets a response, which names a tool only when a branch
\* applies.  A query without CVE id and maturity keyword is routed to the
\* keyword search, limit 5, only if it contains "search", "find" or "look"
\* and text is left once "search for", "find" and "look for" are removed
\* from the lower-cased query and the rest is stripped; that text, not the
\* query as typed, is the keyword.  Any other such query gets the help
\* response, which names no tool.
C18_FallbackIsHelp ==
    Asked
    => /\ {"success", "query", "llm_used"} \subseteq DOMAIN Get(answer)
       /\ NothingSelected <=> "response" \in DOMAIN Get(answer)
       /\ (~HasCveId(AskedLower) /\ ~HasMaturityKeyword(AskedLower))
          => /\ RoutedAsPlainText
             /\ Selected("search_cves_by_keyword")
                => LET keyword == Get(answer).tool_arguments.keyword IN
                   /\ keyword # <<>>
                   /\ keyword[1] \notin Whitespace
                   /\ keyword[Len(keyword)] \notin Whitespace
                   /\ ~Contains(keyword, <<"f", "i", "n", "d">>)

\* C18 witness: "xyzzy12345", which no rule matches, got the help response.
C18_Witness ==
    /\ Asked
    /\ Get(answer).query = <<"x", "y", "z", "z", "y", "1", "2", "3", "4",
                             "5">>
    /\ MatchesNoRule(AskedLower)
    /\ NothingSelected
    /\ Get(answer).success

\* C19 as stated: a query without CVE id and severity word that contains
\* recent, latest, newly or new is routed to the listing of recent CVEs with
\* limit 10.
C19_RecencyWordIsListRecent ==
    (Asked /\ ~HasCveId(AskedLower) /\ ~HasSeverityWord(AskedLower)
           /\ HasRecencyWord(AskedLower))
    => /\ Selected("list_recent_cves")
       /\ Get(answer).tool_arguments.limit = 10

\* C19: no query is routed to a listing of recent CVEs.  A query without CVE
\* id that contains recent, latest, newly or new goes to the exploit-maturity
\* search when it has a maturity keyword and the way of plain text otherwise.
C19_RecencyWordIsNoRule ==
    (Asked /\ ~HasCveId(AskedLower) /\ HasRecencyWord(AskedLower))
    => /\ ~Selected("list_recent_cves")
       /\ HasMaturityKeyword(AskedLower)
          => Selected("search_cves_by_exploit_maturity")
       /\ ~HasMaturityKeyword(AskedLower) => RoutedAsPlainText

\* C19 witness: "Latest vulnerabilities" got the help response.
C19_Witness ==
    /\ Asked
    /\ Get(answer).query = <<"L", "a", "t", "e", "s", "t", " ", "v", "u",
                             "l", "n", "e", "r", "a", "b", "i", "l", "i",
                             "t", "i", "e", "s">>
    /\ Contains(AskedLower, <<"l", "a", "t", "e", "s", "t">>)
    /\ NothingSelected
    /\ "response" \in DOMAIN Get(answer)

\* C20 as stated: a query that no earlier rule matches and that mentions
\* score or cvss with N <sep> M, both in [0,10] and N <= M, is routed to the
\* score-range search with min_score N, max_score M and limit 10; with numbers
\* out of range or N > M it falls through to the keyword search for the query
\* as typed.
C20_ScoreRangeIsScoreSearch ==
    (/\ Asked
     /\ ~HasCveId(AskedLower)
     /\ ~HasSeverityWord(AskedLower)
     /\ ~HasRecencyWord(AskedLower)
     /\ ~HasMaturityKeyword(AskedLower)
     /\ MentionsScore(AskedLower)
     /\ NumberPairs(AskedLower) # {})
    => IF ScoreRanges(AskedLower) # {}
       THEN /\ Selected("search_cves_by_cvss_score")
            /\ \E p \in ScoreRanges(AskedLower) :
                  /\ Get(answer).tool_arguments.min_score = p[1]
                  /\ Get(answer).tool_arguments.max_score = p[2]
            /\ Get(answer).tool_arguments.limit = 10
       ELSE /\ Selected("search_cves_by_keyword")
            /\ Get(answer).tool_arguments.keyword = Get(answer).query

\* C20: no query is routed to a score-range search.  A query without CVE id
\* and maturity keyword that mentions score or cvss with N <sep> M goes the
\* way of plain text, whatever the two numbers are.
C20_ScoreRangeIsNoRule ==
    (/\ Asked
     /\ ~HasCveId(AskedLower)
     /\ ~HasMaturityKeyword(AskedLower)
     /\ MentionsScore(AskedLower)
     /\ NumberPairs(AskedLower) # {})
    => /\ ~Selected("search_cves_by_cvss_score")
       /\ RoutedAsPlainText

\* C20 witness: "score between 7 and 9", a range within [0,10], got the help
\* response.
C20_Witness ==
    /\ Asked
    /\ Get(answer).query = <<"s", "c", "o", "r", "e", " ", "b", "e", "t",
                             "w", "e", "e", "n", " ", "7", " ", "a", "n",
                             "d", " ", "9">>
    /\ ScoreRanges(AskedLower) = {<<7, 9>>}
    /\ NothingSelected
    /\ "response" \in DOMAIN Get(answer)

----------------------------------------------------------------------------
(* Properties of a conversation. *)

\* C21: two classifications of one query text choose the same tool and the
\* same arguments (or both choose none), whatever was asked in between and
\* whatever the history and the connection state were at each.
C21_SameQuerySameDecision ==
    \A i, j \in DOMAIN decided :
        agent.conversation_history[i].content = agent.conversation_history[j].content
        => decided[i] = decided[j]

\* C21 witness: a query that names a tool was asked, then a query with
\* another decision, and the first query, asked again of the connected
\* agent and run with success, got the decision it got the first time.
C21_Witness ==
    /\ Len(decided) = 3
    /\ agent.connected
    /\ Get(answer).success
    /\ agent.conversation_history[1].content = agent.conversation_history[3].content
    /\ agent.conversation_history[2].content # agent.conversation_history[1].content
    /\ decided[2] # decided[1]
    /\ decided[1] # None
    /\ decided[3] = decided[1]

----------------------------------------------------------------------------
(* Properties of the HTTP endpoints. *)

\* Status codes of the client-error and of the server-error class.
ClientError == 400..499

ServerError == 500..599

\* A tool was found and the caller with this header may not use it.
MayNotUse(found, header) ==
    /\ found # None
    /\ state_product_profile(header)
          \notin Elems(Get(found).product_profiles) \cup {"ADMIN"}

\* The response is an HTTP error of the given status code.
IsHTTPError(response, status_code) ==
    /\ response.kind = "HTTPException"
    /\ response.status_code = status_code

\* C22: access-denied and not-found are two distinguishable outcomes, 403
\* and 404, both client errors and neither a server error; a request for a
\* registered tool the caller may not use is answered access-denied (403),
\* never not-found, by the dispatch and by a GET /tools/{tool_name} of the
\* same caller for the same name.
C22_DeniedIsNotMissing ==
    /\ 403 # 404 /\ {403, 404} \subseteq ClientError \ ServerError
    /\ (Done /\ req.outcome = "not_found")
          => /\ IsHTTPError(req.response, 404)
             /\ req.tool = None
    /\ (Done /\ req.outcome = "access_denied")
          => /\ IsHTTPError(req.response, 403)
             /\ MayNotUse(req.tool, req.header)
    /\ (Done /\ MayNotUse(req.tool, req.header))
          => /\ req.outcome = "access_denied"
             /\ IsHTTPError(req.response, 403)
    /\ req.pc # "idle"
          => LET found == get_tool(tools, req.tool_name)
                 response == get_tool_info(tools, req.tool_name, req.header)
             IN  /\ MayNotUse(found, req.header) <=> IsHTTPError(response, 403)
                 /\ found = None <=> IsHTTPError(response, 404)

\* C22 witness: a dispatch to a registered tool that the caller may not use
\* has been answered 403, as GET /tools/{tool_name} answers the same caller.
C22_Witness ==
    /\ Done
    /\ MayNotUse(req.tool, req.header)
    /\ req.outcome = "access_denied"
    /\ IsHTTPError(req.response, 403)
    /\ get_tool(tools, req.tool_name) = req.tool
    /\ IsHTTPError(get_tool_info(tools, req.tool_name, req.header), 403)

----------------------------------------------------------------------------
(* Properties of dispatches served at once. *)

\* The dispatch of a request served alone, given what the provider answered
\* when the callable ran (no matter what, when it did not run).
Alone(request, world) ==
    LET worlds == WorldsOf(tools, request.tool_name) IN
    call_tool(tools, request.tool_name, ArgsOf(request.tool_name),
              request.header,
              IF world = None THEN CHOOSE w \in worlds : TRUE ELSE Get(world))

\* C23: with the tools of start-up only, in every interleaving of dispatches
\* served at once each dispatch is the one its request gets when served
\* alone: same resolved tool, arguments and profile, same outcome and same
\* response, and its X-Correlation-ID is the one it came with.
C23_ServedAsIfAlone ==
    \A task \in Tasks :
        reqs[task].pc \in {"handled", "sent"}
        => LET r == reqs[task]
               alone == Alone(r.request, r.call.world)
           IN  /\ r.call = alone
               /\ r.call.tool_name = r.request.tool_name
               /\ r.call.profile_enum = state_product_profile(r.request.header)
               /\ r.pc = "sent"
                     => /\ r.response.body = alone.response
                        /\ r.response.X_Correlation_ID =
                              (IF r.request.correlation = None
                               THEN "default-correlation-id"
                               ELSE Get(r.request.correlation))

\* C23 witness: two dispatches for one tool were served at once, the premium
\* caller's answered with a success envelope and the other caller's with
\* access denied, each with its own correlation id.
C23_Witness ==
    /\ \A task \in {1, 2} :
          /\ reqs[task].pc = "sent"
          /\ reqs[task].request.tool_name = "search_cves_by_cvss_score"
    /\ reqs[1].request.header = None
    /\ reqs[1].call.outcome = "access_denied"
    /\ reqs[1].response.X_Correlation_ID = "c-1"
    /\ reqs[2].request.header # None
    /\ reqs[2].call.outcome = "returned"
    /\ reqs[2].response.body.status = "success"
    /\ reqs[2].response.X_Correlation_ID = "default-correlation-id"

----------------------------------------------------------------------------
(* Properties of the catalogue. *)

\* The names of a listing, in its order.
Names(listing) == [i \in DOMAIN listing |-> listing[i].name]

\* Where a name stands in a listing that holds it.
Position(listing, name) == CHOOSE i \in DOMAIN listing : listing[i].name = name

\* The tools of one listing are tools of the other, in the same relative
\* order.
SameRelativeOrder(filtered, unfiltered) ==
    /\ \A i \in DOMAIN filtered : filtered[i] \in Elems(unfiltered)
    /\ \A i, j \in DOMAIN filtered :
          i < j => Position(unfiltered, filtered[i].name)
                      < Position(unfiltered, filtered[j].name)

\* The listings of the registry: without a profile and for ADMIN every
\* registered name once, with the descriptor of its latest registration;
\* for another profile the tools of that profile, ordered as in the
\* unfiltered listing.
ListedInOrder ==
    LET unfiltered == list_tools(tools, None) IN
    /\ list_tools(tools, Some("ADMIN")) = unfiltered
    /\ Len(unfiltered) = Cardinality(DOMAIN registered)
    /\ \A i \in DOMAIN unfiltered :
          /\ unfiltered[i].name \in DOMAIN registered
          /\ unfiltered[i] = LatestTool(unfiltered[i].name)
    /\ \A p \in Profiles \ {"ADMIN"} :
          LET filtered == list_tools(tools, Some(p)) IN
          /\ SameRelativeOrder(filtered, unfiltered)
          /\ \A t \in Elems(unfiltered) :
                t \in Elems(filtered) <=> p \in Elems(t.product_profiles)

\* A step keeps the order of the names: a name registered for the first time
\* goes to the end, every other step leaves the names where they are.
KeepsRegistrationOrder ==
    LET new == DOMAIN registered' \ DOMAIN registered IN
    IF new = {}
    THEN Names(tools') = Names(tools)
    ELSE \E name \in new : Names(tools') = Append(Names(tools), name)

\* The latest answer of GET /tools holds its tools in the order of the
\* registry (which may have grown since).
AnswersInOrder ==
    info.kind = "listing"
    => LET unfiltered == list_tools(tools, None) IN
           /\ Len(info.tools) = info.count
           /\ \A i, j \in DOMAIN info.tools :
                 i < j => Position(unfiltered, info.tools[i].name)
                             < Position(unfiltered, info.tools[j].name)

\* C24: the listing without a profile and the listing for ADMIN hold all
\* descriptors in the order in which their names were first registered, a
\* re-registered name keeping its place; the listing for another profile
\* holds its tools in the order they have in the unfiltered listing.
C24_ListedInRegistrationOrder ==
    /\ [](ListedInOrder /\ AnswersInOrder)
    /\ [][KeepsRegistrationOrder]_vars

\* C24 witness: a loaded tool was registered again and a new name after it;
\* the first kept its place, the second went to the end, and a listing that
\* a caller with the common profile got leaves tools out.
C24_Witness ==
    /\ Names(tools) = Append(cve_tools, "custom_tool")
    /\ tools[6] # load_tools(<<>>)[6]
    /\ info.kind = "listing"
    /\ info.header = None
    /\ info.count \in 2..(Len(tools) - 1)
    /\ ListedInOrder
    /\ AnswersInOrder

\* Every name that was registered resolves.
RegisteredResolve ==
    \A name \in DOMAIN registered : get_tool(tools, name) # None

\* A name that resolves before a step resolves after it.
StaysRegistered ==
    \A name \in ToolNames :
        get_tool(tools, name) # None => get_tool(tools', name) # None

\* C25: once a name has been registered, get_tool(name) is not None in every
\* later state, whatever registrations, lookups, listings and dispatches
\* follow.
C25_NeverRescinded ==
    /\ []RegisteredResolve
    /\ [][StaysRegistered]_vars

\* C25 witness: after a registration of a new name, another registration
\* and a dispatch to the new name, the name resolves, as do the loaded ones.
C25_Witness ==
    /\ nregs = 2
    /\ info.kind = "dispatch"
    /\ info.call.tool_name = "custom_tool"
    /\ info.call.tool # None
    /\ get_tool(tools, "custom_tool") # None
    /\ DOMAIN registered = Elems(cve_tools) \cup {"custom_tool"}
    /\ RegisteredResolve

\* The registry holds the same names, each with the same descriptor, in the
\* same places after a step as before it.
RegistryUnchanged ==
    /\ {tools'[i].name : i \in DOMAIN tools'} = {tools[i].name : i \in DOMAIN tools}
    /\ \A name \in ToolNames : get_tool(tools', name) = get_tool(tools, name)
    /\ tools' = tools

\* C26: a step that is not a registration (a lookup, a listing, a dispatch
\* in any of its outcomes) leaves the registry unchanged: the same names and
\* the same fields of every descriptor.
C26_ReadsLeaveRegistry ==
    [][nregs' = nregs => RegistryUnchanged]_vars

\* C26 witness: after a registration a dispatch to the registered tool has
\* raised, and the registry holds the loaded tools and the registered one as
\* the registration left them.
C26_Witness ==
    /\ nregs = 1
    /\ info.kind = "dispatch"
    /\ info.call.outcome = "raised"
    /\ info.call.tool_name = "custom_tool"
    /\ Names(tools) = Append(cve_tools, "custom_tool")
    /\ \A name \in DOMAIN registered :
          get_tool(tools, name) = {LatestTool(name)}

----------------------------------------------------------------------------
(* Properties of the decorator. *)

\* The decorators that ran for a name after start-up gave no input_schema.
DerivedFor(name) ==
    /\ "decorator_input_schema" \in DOMAIN registered[name]
    /\ registered[name].decorator_input_schema = None

\* The decorator that ran last for a name gave an input_schema: after
\* start-up, or in cve_tools.py.
ExplicitFor(name) ==
    IF "decorator_input_schema" \in DOMAIN registered[name]
    THEN registered[name].decorator_input_schema
    ELSE Some(decorator_input_schema(name))

\* C27: a tool decorated without input_schema has a schema with one property
\* per parameter of its function, a parameter being required if and only if
\* it declares no default; a tool decorated with an input_schema, an empty
\* one included, has that schema.
C27_SchemaDerivedOrStored ==
    \A name \in DOMAIN registered :
        LET stored == Get(get_tool(tools, name)).input_schema
            params == Elems(Signature(name))
        IN  IF DerivedFor(name)
            THEN /\ stored.properties = {param.name : param \in params}
                 /\ Cardinality(stored.properties) = Len(Signature(name))
                 /\ \A param \in params :
                       param.name \in stored.required <=> param.default = None
                 /\ stored.required \subseteq stored.properties
            ELSE stored = Get(ExplicitFor(name))

\* C27 witness: a function with a parameter without default and one with a
\* default was decorated without input_schema and its tool has been fetched;
\* another function was decorated with an empty schema, which it kept.
C27_Witness ==
    /\ {"custom_async", "get_cve_details"} \subseteq DOMAIN registered
    /\ DerivedFor("custom_async")
    /\ info.kind = "tool_info"
    /\ info.tool.name = "custom_async"
    /\ info.tool.input_schema = Schema({"x", "y"}, {"x"})
    /\ ~DerivedFor("get_cve_details")
    /\ ExplicitFor("get_cve_details") = Some(Schema({}, {}))
    /\ Get(get_tool(tools, "get_cve_details")).input_schema = Schema({}, {})

----------------------------------------------------------------------------
(* Listing and authorization. *)

\* The names of the tools of a listing.
Shown(listing) == {listing.tools[i].name : i \in DOMAIN listing.tools}

\* The latest answer of GET /tools is the listing of the registry as it is.
Fresh == info.kind = "listing" /\ info = http_list_tools(tools, info.header)

\* POST /tools/call for the tool passes the access check for this caller:
\* the handler goes on to execute the callable.
PassesCall(tool_name, header) ==
    \E world \in WorldsOf(tools, tool_name) :
        LET call == call_tool(tools, tool_name, ArgsOf(tool_name), header, world)
        IN  /\ call.outcome \notin {"not_found", "access_denied"}
            /\ call.events = <<"from_code", "get_tool", "check_access", "execute">>

\* GET /tools/{tool_name} passes the access check for this caller.
PassesInfo(tool_name, header) ==
    get_tool_info(tools, tool_name, header).kind = "tool_info"

\* C28: for every Product-Profile header a caller sends and every registered
\* tool, the tool is in the /tools listing the caller gets if and only if
\* the caller's /tools/call and /tools/{name} requests for it pass the
\* access check.
C28_ShownIffAllowed ==
    Fresh => \A name \in DOMAIN registered :
                /\ name \in Shown(info) <=> PassesCall(name, info.header)
                /\ name \in Shown(info) <=> PassesInfo(name, info.header)

\* C28 witness: a caller without a header got a listing that leaves out a
\* registered tool and shows another; the caller is denied the first by
\* both endpoints and passes the check of both for the second.
C28_Witness ==
    /\ Fresh
    /\ info.header = None
    /\ nregs > 0
    /\ \E hidden, shown \in DOMAIN registered :
          /\ hidden \notin Shown(info)
          /\ ~PassesCall(hidden, None)
          /\ IsHTTPError(get_tool_info(tools, hidden, None), 403)
          /\ shown \in Shown(info)
          /\ PassesCall(shown, None)
          /\ PassesInfo(shown, None)

----------------------------------------------------------------------------
(* Properties of CVEMCPTools. *)

\* What execute_tool returns without calling a tool method.
NotConnected == [success |-> FALSE, error |-> "Not connected to database"]

\* The latest call of execute_tool on the tools object, with what it returned.
Executed == answer # None /\ "connection" \in DOMAIN Get(answer)

\* A call of a tool method that ends with a result of that method.
RunsTool(call) ==
    /\ call.tool_name \in tool_map
    /\ binds(call.tool_name, call.arguments)
    /\ call.world.docs # <<>> => call.world.renders

\* C29: execute_tool always returns a mapping with a success flag.  When the
\* latest connect did not succeed or a disconnect followed it (never
\* connected, failed connect, disconnected) the mapping is {success: False,
\* error: "Not connected to database"}, whatever the tool and whatever the
\* database holds.  When the latest connect succeeded and no disconnect
\* followed, a name that is no tool and a tool method that raises give
\* success False with their own errors, and every other call gives what the
\* tool method returned.
C29_ExecutesOnlyConnected ==
    Executed =>
        LET call == Get(answer)
            result == call.result
        IN  /\ result.success \in BOOLEAN
            /\ call.connection # "connected" => result = NotConnected
            /\ call.connection = "connected" =>
                  /\ result # NotConnected
                  /\ call.tool_name \notin tool_map =>
                        /\ ~result.success
                        /\ result.error = "Unknown tool: {tool_name}"
                  /\ (call.tool_name \in tool_map /\ ~RunsTool(call)) =>
                        /\ ~result.success
                        /\ result.error = "Tool execution failed: {str(e)}"
                  /\ RunsTool(call) =>
                        /\ result.success <=> call.world.docs # <<>>
                        /\ get(result, "error", "")
                              # "Tool execution failed: {str(e)}"
            /\ result.success => (call.connection = "connected" /\ RunsTool(call))

\* C29 witness: after a disconnect, a call of a tool whose document the
\* database holds returned "Not connected to database".
C29_Witness ==
    /\ Executed
    /\ connection = "disconnected"
    /\ Get(answer).connection = "disconnected"
    /\ RunsTool(Get(answer))
    /\ Get(answer).world.docs # <<>>
    /\ Get(answer).result = NotConnected

----------------------------------------------------------------------------
(* C30: a profile given to call_tool stays with the client. *)

\* The profile the requests up to the i-th were told to use: the latest one
\* given with a call, "common" when none was.
RECURSIVE ProfileGiven(_, _)
ProfileGiven(asked, i) ==
    IF i = 0
    THEN "common"
    ELSE IF truthy(asked[i].product_profile, "")
         THEN Get(asked[i].product_profile)
         ELSE ProfileGiven(asked, i - 1)

\* Requests i+1..j all come from commands of the command line.
CommandsOnly(i, j) ==
    \A k \in (i + 1)..j : client.asked[k].command # None

\* C30: every request of the client, a tool call or a fetch of the tool list,
\* carries the profile most recently given to call_tool, "common" when none
\* was given yet, and that profile is the one the client holds: a call given
\* no profile neither reverts it nor changes it.  At the command line, every
\* command sent after a `cvss` command is sent as premium.
C30_ProfileSticks ==
    /\ Len(client.asked) = Len(client.sent)
    /\ \A i \in 1..Len(client.sent) :
          client.sent[i].Product_Profile = ProfileGiven(client.asked, i)
    /\ client.product_profile = ProfileGiven(client.asked, Len(client.asked))
    /\ \A i \in 1..Len(client.sent) : \A j \in (i + 1)..Len(client.sent) :
          (client.asked[i].command = Some("cvss") /\ CommandsOnly(i, j))
              => client.sent[j].Product_Profile = "premium"

\* A `cvss` command, then a `get` and a fetch of the tool list, given no
\* profile, both sent as premium.
C30_Witness ==
    /\ Len(client.sent) = 3
    /\ client.asked[1].command = Some("cvss")
    /\ client.asked[2].command = Some("get")
    /\ client.asked[2].product_profile = None
    /\ client.sent[2].endpoint = "/tools/call"
    /\ client.sent[2].Product_Profile = "premium"
    /\ client.asked[3].command = Some("tools")
    /\ client.sent[3].endpoint = "/tools"
    /\ client.sent[3].Product_Profile = "premium"
    /\ client.product_profile = "premium"

====
